---- MODULE Spec2Model ----
(***************************************************************************)
(* Model of the legal knowledge-graph extraction pipeline                  *)
(* (src/src/langgraph_agents, src/src/document_parser,                     *)
(* src/src/normalization).                                                 *)
(*                                                                         *)
(* Representation choices                                                  *)
(*  - A text is a sequence of lines.  A line is a record                   *)
(*    [cls, btype, len]: cls is the class of the line as the regular       *)
(*    expressions of rules.py see it ("H" matches one of                   *)
(*    LEGAL_SECTION_PATTERNS, "N1".."N4" matches HIERARCHY_PATTERNS[0..3]  *)
(*    and no section pattern, "P" other non-blank line, "W" a line of      *)
(*    white space only, "B" an empty line), btype the block type of the    *)
(*    first matching section pattern, len the length of the stripped line. *)
(*  - A surface text of an entity is a tuple of characters, so that        *)
(*    Python's substring test `a in b` is computed and not assumed.        *)
(*  - Identifiers produced by f"block_{n:04d}" and f"entity_{n:04d}" are   *)
(*    the pairs <<"block", n>> and <<"entity", ToString(n)>>.              *)
(*  - Scores are in tenths (quality_threshold 0.8 is 8).                   *)
(***************************************************************************)
EXTENDS Integers, Sequences, FiniteSets, TLC

\* ------------------------------------------------------------------------
\* Bounds of the model
\* ------------------------------------------------------------------------
MaxBacktrackBound == 2

MaxMentions == 3

MaxRelations == 3

MaxLines == 4

MaxCorefRelations == 3

MaxEdges == 3

MaxHopLimit == 2

\* ------------------------------------------------------------------------
\* Generic helpers
\* ------------------------------------------------------------------------
Range(s) == {s[i] : i \in 1..Len(s)}

RECURSIVE SeqSum(_)
SeqSum(s) == IF s = <<>> THEN 0 ELSE Head(s) + SeqSum(Tail(s))

RECURSIVE FilterSeq(_, _)
FilterSeq(s, keep) ==
    IF s = <<>> THEN <<>>
    ELSE IF Head(s) \in keep THEN <<Head(s)>> \o FilterSeq(Tail(s), keep)
         ELSE FilterSeq(Tail(s), keep)

\* ------------------------------------------------------------------------
\* Document parser (src/src/document_parser)
\* ------------------------------------------------------------------------
Line(c, t, n) == [cls |-> c, btype |-> t, len |-> n]

IsBlank(l) == l.cls \in {"B", "W"}

\* rules.is_legal_section: (matched, block type)
is_legal_section(l) ==
    IF l.cls = "H" THEN <<TRUE, l.btype>> ELSE <<FALSE, "OTHER">>

\* rules.identify_hierarchy_level: 1 + index of the first numbering
\* pattern that matches, 0 when none does.  Every section pattern starts
\* with an optional bracket followed by a heading keyword, no numbering
\* pattern does, so a line of class "H" matches no numbering pattern.
identify_hierarchy_level(l) ==
    CASE l.cls = "N1" -> 1
      [] l.cls = "N2" -> 2
      [] l.cls = "N3" -> 3
      [] l.cls = "N4" -> 4
      [] OTHER -> 0

\* str.strip on a sequence of lines: drop leading and trailing blank lines
RECURSIVE StripLeft(_)
StripLeft(t) ==
    IF t = <<>> THEN <<>>
    ELSE IF IsBlank(Head(t)) THEN StripLeft(Tail(t)) ELSE t

RECURSIVE StripRight(_)
StripRight(t) ==
    IF t = <<>> THEN <<>>
    ELSE IF IsBlank(t[Len(t)]) THEN StripRight(SubSeq(t, 1, Len(t) - 1)) ELSE t

Strip(t) == StripRight(StripLeft(t))

\* re.sub(r'\n{3,}', '\n\n'): a run of two or more empty lines between two
\* lines becomes one empty line (white-space-only lines are not newlines)
RECURSIVE CollapseEmpty(_)
CollapseEmpty(t) ==
    IF Len(t) < 2 THEN t
    ELSE IF t[1].cls = "B" /\ t[2].cls = "B" THEN CollapseEmpty(Tail(t))
         ELSE <<Head(t)>> \o CollapseEmpty(Tail(t))

StripLine(l) == IF l.cls = "W" THEN Line("B", "OTHER", 0) ELSE l

\* DocumentParser._clean_text
CleanText(t) == Strip([i \in 1..Len(CollapseEmpty(t)) |-> StripLine(CollapseEmpty(t)[i])])

\* offset of line i (1-based) in "\n".join(lines)
LineStart(t, i) == SeqSum([j \in 1..(i - 1) |-> t[j].len + 1])

TextLen(t) == IF t = <<>> THEN 0 ELSE LineStart(t, Len(t)) + t[Len(t)].len

\* DocumentParser._identify_sections: indexes of the heading lines, in order
RECURSIVE SectionIdx(_, _)
SectionIdx(t, i) ==
    IF i > Len(t) THEN <<>>
    ELSE IF ~IsBlank(t[i]) /\ is_legal_section(t[i])[1]
         THEN <<i>> \o SectionIdx(t, i + 1)
         ELSE SectionIdx(t, i + 1)

IdentifySections(t) ==
    [k \in 1..Len(SectionIdx(t, 1)) |->
        [pos   |-> LineStart(t, SectionIdx(t, 1)[k]),
         line  |-> SectionIdx(t, 1)[k],
         title |-> t[SectionIdx(t, 1)[k]],
         btype |-> is_legal_section(t[SectionIdx(t, 1)[k]])[2]]]

\* DocumentParser._generate_block_id with the counter at value n
GenerateBlockId(n) == <<"block", n + 1>>

Block(id, bt, ti, co, sp, ep, lv) ==
    [block_id |-> id, block_type |-> bt, title |-> ti, content |-> co,
     start_pos |-> sp, end_pos |-> ep, level |-> lv, parent_id |-> <<>>]

NoTitle == Line("P", "OTHER", 0)

\* DocumentParser._build_blocks, the block counter being at ctr
HasPrelude(secs, t) ==
    /\ secs # <<>>
    /\ secs[1].pos > 0
    /\ Strip(SubSeq(t, 1, secs[1].line - 1)) # <<>>

PreludeBlocks(secs, t, ctr) ==
    IF HasPrelude(secs, t)
    THEN << Block(GenerateBlockId(ctr), "OTHER", NoTitle,
                  Strip(SubSeq(t, 1, secs[1].line - 1)), 0, secs[1].pos, 0) >>
    ELSE <<>>

SectionBlock(secs, t, i, ctr) ==
    IF i + 1 <= Len(secs)
    THEN Block(GenerateBlockId(ctr), secs[i].btype, secs[i].title,
               Strip(SubSeq(t, secs[i].line + 1, secs[i + 1].line - 1)),
               secs[i].pos, secs[i + 1].pos,
               identify_hierarchy_level(secs[i].title))
    ELSE Block(GenerateBlockId(ctr), secs[i].btype, secs[i].title,
               Strip(SubSeq(t, secs[i].line + 1, Len(t))),
               secs[i].pos, TextLen(t),
               identify_hierarchy_level(secs[i].title))

BuildBlocks(secs, t, ctr) ==
    PreludeBlocks(secs, t, ctr) \o
    [i \in 1..Len(secs) |->
        SectionBlock(secs, t, i, ctr + Len(PreludeBlocks(secs, t, ctr)) + i - 1)]

\* variant: the stack is never popped
PopStackNever(stack, lv) == stack

\* DocumentParser._build_hierarchy: stack of <<block_id, level>> over the
\* blocks of level > 0 in order of start_pos (already the order of blocks)
RECURSIVE PopStack(_, _)
PopStack(stack, lv) ==
    IF stack # <<>> /\ stack[Len(stack)][2] >= lv
    THEN PopStack(SubSeq(stack, 1, Len(stack) - 1), lv)
    ELSE stack

RECURSIVE HierarchyFrom(_, _, _)
HierarchyFrom(blocks, i, stack) ==
    IF i > Len(blocks) THEN blocks
    ELSE IF blocks[i].level > 0
         THEN LET st == PopStack(stack, blocks[i].level)
                  b  == IF st # <<>>
                        THEN [blocks[i] EXCEPT !.parent_id = st[Len(st)][1]]
                        ELSE blocks[i]
              IN HierarchyFrom([blocks EXCEPT ![i] = b], i + 1,
                               Append(st, <<b.block_id, b.level>>))
         ELSE HierarchyFrom(blocks, i + 1, stack)

BuildHierarchy(blocks) == HierarchyFrom(blocks, 1, <<>>)

\* DocumentParser.parse, the block counter being at ctr
parse(text, ctr) ==
    BuildHierarchy(BuildBlocks(IdentifySections(CleanText(text)), CleanText(text), ctr))

\* ------------------------------------------------------------------------
\* Entity dictionary (src/src/normalization/dictionary.py)
\* Surface texts are tuples of characters, one pinyin syllable per
\* Chinese character.
\* ------------------------------------------------------------------------
ZhongHuaRenMinGongHeGuo == <<"zhong", "hua", "ren", "min", "gong", "he", "guo">>
ZhongGuo == <<"zhong", "guo">>
WoGuo == <<"wo", "guo">>
BeiGao == <<"bei", "gao">>
BeiGaoRen == <<"bei", "gao", "ren">>
BeiShenQingRen == <<"bei", "shen", "qing", "ren">>
YuanGao == <<"yuan", "gao">>
ShenQingRen == <<"shen", "qing", "ren">>
ShangSuRen == <<"shang", "su", "ren">>

\* EntityDictionary.entries after _load_default_dictionary (keys)
DictEntries == {ZhongHuaRenMinGongHeGuo, BeiGao, YuanGao}

\* EntityDictionary.alias_map after _load_default_dictionary
AliasMap ==
    (ZhongGuo :> ZhongHuaRenMinGongHeGuo) @@ (WoGuo :> ZhongHuaRenMinGongHeGuo) @@
    (BeiGaoRen :> BeiGao) @@ (BeiShenQingRen :> BeiGao) @@
    (ShenQingRen :> YuanGao) @@ (ShangSuRen :> YuanGao)

\* EntityDictionary.lookup followed by get_canonical_name
get_canonical_name(name) ==
    IF name \in DictEntries THEN name
    ELSE IF name \in DOMAIN AliasMap THEN AliasMap[name]
    ELSE name

\* ------------------------------------------------------------------------
\* Entity normalizer (src/src/normalization/normalizer.py)
\* ------------------------------------------------------------------------
\* Python `a in b` on strings
IsSubstring(a, b) ==
    \E i \in 0..(Len(b) - Len(a)) : SubSeq(b, i + 1, i + Len(a)) = a

\* dict.get(key, default) on an entity dict
Get(e, key, default) == IF key \in DOMAIN e THEN e[key] ELSE default

\* {**entity, "canonical_name": cn, "is_dict_matched": dm}
WithMatch(e, cn, dm) ==
    [f \in (DOMAIN e) \cup {"canonical_name", "is_dict_matched"} |->
        IF f = "canonical_name" THEN cn
        ELSE IF f = "is_dict_matched" THEN dm
        ELSE e[f]]

\* EntityNormalizer._pre_match_dictionary
PreMatchDictionary(entities) ==
    [i \in 1..Len(entities) |->
        WithMatch(entities[i],
                  get_canonical_name(Get(entities[i], "text", <<>>)),
                  get_canonical_name(Get(entities[i], "text", <<>>))
                      # Get(entities[i], "text", <<>>))]

\* PKUSegmenter.compute_similarity, kw being the keyword sets that
\* extract_keywords returns: a fraction <<numerator, denominator>>
SegSimilarity(kw, t1, t2) ==
    IF kw[t1] = {} \/ kw[t2] = {} THEN <<0, 1>>
    ELSE <<Cardinality(kw[t1] \cap kw[t2]), Cardinality(kw[t1] \cup kw[t2])>>

\* EntityNormalizer._compute_entity_similarity (a fraction)
ComputeEntitySimilarity(kw, e1, e2) ==
    LET text1 == Get(e1, "text", <<>>)
        text2 == Get(e2, "text", <<>>)
    IN IF IsSubstring(text1, text2) \/ IsSubstring(text2, text1) THEN <<9, 10>>
       ELSE IF /\ e1.canonical_name = e2.canonical_name
               /\ e1.canonical_name # text1
               /\ e1.canonical_name # text2
            THEN <<95, 100>>
            ELSE SegSimilarity(kw, text1, text2)

\* similarity >= similarity_threshold (0.6) of _cluster_same_type
SimilarityThresholdNum == 6

AtLeastThreshold(sim) == sim[1] * 10 >= SimilarityThresholdNum * sim[2]

\* variant: the absorbed mentions are not marked as used
RECURSIVE ClusterSameTypeNoUsed(_, _, _)
ClusterSameTypeNoUsed(kw, ents, idxs) ==
    IF idxs = <<>> THEN <<>>
    ELSE LET seed == Head(idxs)
             absorbed == {j \in Range(Tail(idxs)) :
                            AtLeastThreshold(ComputeEntitySimilarity(kw, ents[seed], ents[j]))}
         IN << <<seed>> \o FilterSeq(Tail(idxs), absorbed) >> \o
            ClusterSameTypeNoUsed(kw, ents, Tail(idxs))

\* EntityNormalizer._cluster_same_type over the indexes idxs (ascending) of
\* the entities of one type: clusters are sequences of indexes
RECURSIVE ClusterSameType(_, _, _)
ClusterSameType(kw, ents, idxs) ==
    IF idxs = <<>> THEN <<>>
    ELSE LET seed == Head(idxs)
             absorbed == {j \in Range(Tail(idxs)) :
                            AtLeastThreshold(ComputeEntitySimilarity(kw, ents[seed], ents[j]))}
         IN << <<seed>> \o FilterSeq(Tail(idxs), absorbed) >> \o
            ClusterSameType(kw, ents, FilterSeq(Tail(idxs), Range(Tail(idxs)) \ absorbed))

\* the group key of _cluster_by_similarity
GroupType(e) == Get(e, "entity_type", "UNKNOWN")

\* keys of type_groups in insertion order
RECURSIVE TypeOrder(_, _, _)
TypeOrder(ents, i, seen) ==
    IF i > Len(ents) THEN <<>>
    ELSE IF GroupType(ents[i]) \in seen THEN TypeOrder(ents, i + 1, seen)
         ELSE <<GroupType(ents[i])>> \o TypeOrder(ents, i + 1, seen \cup {GroupType(ents[i])})

RECURSIVE IdxOfType(_, _, _)
IdxOfType(ents, i, ty) ==
    IF i > Len(ents) THEN <<>>
    ELSE IF GroupType(ents[i]) = ty THEN <<i>> \o IdxOfType(ents, i + 1, ty)
         ELSE IdxOfType(ents, i + 1, ty)

RECURSIVE ClusterGroups(_, _, _)
ClusterGroups(kw, ents, types) ==
    IF types = <<>> THEN <<>>
    ELSE ClusterSameType(kw, ents, IdxOfType(ents, 1, Head(types))) \o
         ClusterGroups(kw, ents, Tail(types))

\* variant: only the first type group is clustered
ClusterBySimilarityFirstGroup(kw, ents) ==
    ClusterGroups(kw, ents, IF ents = <<>> THEN <<>> ELSE <<GroupType(ents[1])>>)

\* EntityNormalizer._cluster_by_similarity
ClusterBySimilarity(kw, ents) == ClusterGroups(kw, ents, TypeOrder(ents, 1, {}))

\* max(names, key=len): the first of the longest names
RECURSIVE LongestFirst(_)
LongestFirst(names) ==
    IF Len(names) = 1 THEN names[1]
    ELSE LET r == LongestFirst(SubSeq(names, 1, Len(names) - 1))
         IN IF Len(names[Len(names)]) > Len(r) THEN names[Len(names)] ELSE r

\* variant: the longest name is taken whatever the dictionary matched
SelectRepresentativeLongest(cl) ==
    IF cl = <<>> THEN <<>>
    ELSE LongestFirst([i \in 1..Len(cl) |-> Get(cl[i], "text", <<>>)])

\* EntityNormalizer._select_representative on a cluster of entities
RECURSIVE FirstDictMatched(_)
FirstDictMatched(cl) ==
    IF cl = <<>> THEN <<>>
    ELSE IF Head(cl).is_dict_matched THEN <<Head(cl)>>
         ELSE FirstDictMatched(Tail(cl))

SelectRepresentative(cl) ==
    IF FirstDictMatched(cl) # <<>> THEN FirstDictMatched(cl)[1].canonical_name
    ELSE IF cl = <<>> THEN <<>>
    ELSE LongestFirst([i \in 1..Len(cl) |-> Get(cl[i], "text", <<>>)])

\* EntityNormalizer._compute_cluster_confidence (a fraction)
ComputeClusterConfidence(cl) ==
    LET n == Len(cl)
        d == Cardinality({i \in 1..n : cl[i].is_dict_matched})
    IN IF n = 0 THEN <<0, 1>>
       ELSE IF d > 0
            THEN IF 700 * n + 200 * d >= 900 * n THEN <<9, 10>>
                 ELSE <<700 * n + 200 * d, 1000 * n>>
            ELSE <<15 + 3 * (IF n < 3 THEN n ELSE 3), 30>>

\* EntityNormalizer._generate_entity_id with the counter at value n
GenerateEntityId(n) == <<"entity", ToString(n + 1)>>

\* one NormalizedEntity of _build_normalized_entities; pick models the
\* element set.pop() returns for a set of block types
NormalizedEntity(cl, id, pick) ==
    [entity_id        |-> id,
     canonical_name   |-> SelectRepresentative(cl),
     aliases          |-> {Get(cl[i], "text", <<>>) : i \in 1..Len(cl)}
                              \ {<<>>, SelectRepresentative(cl)},
     entity_type      |-> Get(cl[1], "entity_type", "UNKNOWN"),
     original_names   |-> [i \in 1..Len(cl) |-> Get(cl[i], "text", <<>>)],
     block_type       |-> pick[{Get(cl[i], "block_type", "") : i \in 1..Len(cl)}],
     confidence       |-> ComputeClusterConfidence(cl),
     source_block_ids |-> {Get(cl[i], "block_id", <<>>) : i \in 1..Len(cl)} \ {<<>>}]

\* EntityNormalizer._build_normalized_entities over index clusters
BuildNormalizedEntities(clusters, ents, ctr, pick) ==
    [k \in 1..Len(clusters) |->
        NormalizedEntity([i \in 1..Len(clusters[k]) |-> ents[clusters[k][i]]],
                         GenerateEntityId(ctr + k - 1), pick)]

\* the clusters EntityNormalizer.normalize builds (indexes into entities)
Clusters(kw, entities) == ClusterBySimilarity(kw, PreMatchDictionary(entities))

\* EntityNormalizer.normalize, the entity counter being at ctr
normalize(kw, entities, ctr, pick) ==
    BuildNormalizedEntities(Clusters(kw, entities), PreMatchDictionary(entities), ctr, pick)

\* ------------------------------------------------------------------------
\* Entity recognition stage (src/src/langgraph_agents/ner_agent.py)
\* ------------------------------------------------------------------------
\* keys of knowledge_base.entities.ENTITY_TYPES
ENTITY_TYPES ==
    {"Case", "Court", "Judge", "Party", "Law", "Evidence", "LegalTerm", "Date", "Amount"}

\* knowledge_base.entities.normalize_entity_type (Chinese keys in pinyin)
TypeMapping ==
    ("anjian" :> "Case") @@ ("fayuan" :> "Court") @@ ("faguan" :> "Judge") @@
    ("dangshiren" :> "Party") @@ ("falv" :> "Law") @@ ("zhengju" :> "Evidence") @@
    ("falvshuyu" :> "LegalTerm") @@ ("riqi" :> "Date") @@ ("jine" :> "Amount") @@
    ("plaintiff" :> "Party") @@ ("defendant" :> "Party")

normalize_entity_type(t) == IF t \in DOMAIN TypeMapping THEN TypeMapping[t] ELSE t

\* the pronoun table of NERAgent._filter_pronouns
Pronouns ==
    {<<"ta1">>, <<"ta2">>, <<"ta3">>, <<"ta3", "men">>, <<"ta1", "men">>,
     <<"ta2", "men">>, <<"ta3", "men", "men">>, <<"qi">>, <<"gai">>, <<"ci">>,
     <<"ben">>, <<"shang", "shu">>, <<"gai", "bei", "gao">>, <<"gai", "yuan", "gao">>,
     YuanGao, BeiGao}

\* NERAgent._validate_entities (the position fields it may add are read by
\* no later stage and are left out)
ValidateEntities(items) ==
    LET HasFields(e) == {"type", "text"} \subseteq DOMAIN e
        Normalized(e) == [e EXCEPT !.type = normalize_entity_type(e.type)]
        Supported(e) == e.type \in ENTITY_TYPES
        withFields == SelectSeq(items, HasFields)
    IN SelectSeq([i \in 1..Len(withFields) |-> Normalized(withFields[i])], Supported)

\* NERAgent._filter_pronouns
FilterPronouns(entities) ==
    LET NotPronoun(e) == e.text \notin Pronouns
    IN SelectSeq(entities, NotPronoun)

\* NERAgent._process_block on the answer of the inference call: a raised
\* call is caught and gives [], an unparsable answer gives []
NerProcessBlock(resp) ==
    IF resp.kind = "ok" THEN FilterPronouns(ValidateEntities(resp.items)) ELSE <<>>

\* entity dict with more keys
WithKeys(e, extra) ==
    [f \in (DOMAIN e) \cup (DOMAIN extra) |-> IF f \in DOMAIN extra THEN extra[f] ELSE e[f]]

\* NERAgent._assign_entity_ids: f"{type.lower()}_{n:03d}" is
\* <<type, ToString(n)>>
AssignEntityIds(entities) ==
    [i \in 1..Len(entities) |->
        WithKeys(entities[i],
                 [id |-> <<entities[i].type,
                           ToString(Cardinality({j \in 1..(i - 1) :
                                                   entities[j].type = entities[i].type}))>>,
                  confidence |-> Get(entities[i], "confidence", 10)])]

\* the entities of one block with the block information added
NerBlockResult(resp, block) ==
    [i \in 1..Len(NerProcessBlock(resp)) |->
        WithKeys(NerProcessBlock(resp)[i],
                 [block_id |-> block.block_id, block_type |-> block.block_type])]

\* the loop of NERAgent.process over the blocks from index i on; resps maps
\* the index of a block with content to the answer of its inference call
RECURSIVE NerAllEntities(_, _, _)
NerAllEntities(blocks, resps, i) ==
    IF i > Len(blocks) THEN <<>>
    ELSE IF blocks[i].content = <<>> THEN NerAllEntities(blocks, resps, i + 1)
         ELSE NerBlockResult(resps[i], blocks[i]) \o NerAllEntities(blocks, resps, i + 1)

ContentBlocks(blocks) == {i \in 1..Len(blocks) : blocks[i].content # <<>>}

\* block_entities of NERAgent.process: block id -> entities of the block
\* (the dicts are the ones of all_entities, so they carry the ids too)
NerBlockEntities(blocks, resps, all) ==
    [b \in {blocks[i].block_id : i \in ContentBlocks(blocks)} |->
        LET HereB(e) == e.block_id = b IN SelectSeq(all, HereB)]

\* ------------------------------------------------------------------------
\* Relation extraction stage (src/src/langgraph_agents/relation_agent.py)
\* A predicate is a tuple of characters; an ASCII identifier is one
\* character of it.
\* ------------------------------------------------------------------------
\* keys of knowledge_base.schemas.RELATION_TYPES
RELATION_TYPES ==
    {<<"case_in_court">>, <<"case_judged_by">>, <<"case_involved_party">>,
     <<"case_applied_law">>, <<"case_evidence">>, <<"party_represented_by">>,
     <<"party_against_party">>, <<"law_cited_by_case">>, <<"law_interpreted_by_case">>,
     <<"case_filed_date">>, <<"case_hearing_date">>, <<"case_judgment_date">>,
     <<"case_amount">>, <<"party_awarded_amount">>}

\* the loop of RelationAgent._parse_and_validate over relation_list
RelValidate(relation_list, entity_ids) ==
    LET Valid(r) ==
            /\ {"subject", "predicate", "object"} \subseteq DOMAIN r
            /\ r.subject \in entity_ids
            /\ r.object \in entity_ids
            /\ r.predicate \in RELATION_TYPES
        Conf(r) ==
            LET c == Get(r, "confidence", 5)
            IN WithKeys(r, [confidence |-> IF 0 <= c /\ c <= 10 THEN c ELSE 5])
        valid == SelectSeq(relation_list, Valid)
    IN [i \in 1..Len(valid) |-> Conf(valid[i])]

\* RelationAgent._parse_and_validate: an empty or unparsable answer gives [];
\* {e["id"] for e in entities} raises KeyError for an entity dict without
\* "id", which the generic handler turns into []
ParseAndValidate(resp, entities) ==
    IF resp.kind # "ok" THEN <<>>
    ELSE IF \E i \in 1..Len(entities) : "id" \notin DOMAIN entities[i] THEN <<>>
    ELSE RelValidate(resp.items, {entities[i].id : i \in 1..Len(entities)})

\* RelationAgent._process_block: no inference call for a block without
\* entities; a raised call is caught and gives []
RelProcessBlock(resp, block, block_entities, all_entities) ==
    IF Get(block_entities, block.block_id, <<>>) = <<>> THEN <<>>
    ELSE IF resp.kind = "raise" THEN <<>>
    ELSE ParseAndValidate(resp, all_entities)

\* RelationAgent._deduplicate_relations, seen being the keys met so far
RECURSIVE RelDeduplicate(_, _)
RelDeduplicate(relations, seen) ==
    IF relations = <<>> THEN <<>>
    ELSE LET r == Head(relations)
             key == <<Get(r, "subject", <<>>), Get(r, "predicate", <<>>), Get(r, "object", <<>>)>>
         IN IF key \in seen THEN RelDeduplicate(Tail(relations), seen)
            ELSE <<r>> \o RelDeduplicate(Tail(relations), seen \cup {key})

\* the loop of RelationAgent.process over the blocks from index i on
RECURSIVE RelAllRelations(_, _, _, _, _)
RelAllRelations(blocks, resps, block_entities, all_entities, i) ==
    IF i > Len(blocks) THEN <<>>
    ELSE IF blocks[i].content = <<>>
         THEN RelAllRelations(blocks, resps, block_entities, all_entities, i + 1)
         ELSE LET rs == RelProcessBlock(resps[i], blocks[i], block_entities, all_entities)
              IN [k \in 1..Len(rs) |-> WithKeys(rs[k], [block_id |-> blocks[i].block_id])] \o
                 RelAllRelations(blocks, resps, block_entities, all_entities, i + 1)

\* ------------------------------------------------------------------------
\* Relation normalization stage
\* (src/src/langgraph_agents/relation_norm_agent.py)
\* ------------------------------------------------------------------------
\* RelationNormalizationAgent._load_relation_types
RelationSchema ==
    (<<"case_in_court">> :> <<"Case", "Court">>) @@
    (<<"case_judged_by">> :> <<"Case", "Judge">>) @@
    (<<"case_involved_party">> :> <<"Case", "Party">>) @@
    (<<"case_applied_law">> :> <<"Case", "Law">>) @@
    (<<"case_evidence">> :> <<"Case", "Evidence">>) @@
    (<<"party_represented_by">> :> <<"Party", "Party">>) @@
    (<<"party_against_party">> :> <<"Party", "Party">>) @@
    (<<"law_cited_by_case">> :> <<"Law", "Case">>) @@
    (<<"law_interpreted_by_case">> :> <<"Law", "Case">>) @@
    (<<"case_filed_date">> :> <<"Case", "Date">>) @@
    (<<"case_hearing_date">> :> <<"Case", "Date">>) @@
    (<<"case_judgment_date">> :> <<"Case", "Date">>) @@
    (<<"case_amount">> :> <<"Case", "Amount">>) @@
    (<<"party_awarded_amount">> :> <<"Party", "Amount">>)

\* predicate_aliases of _normalize_predicate, in insertion order
PredicateAliases ==
    << <<<<"zai", ".", ".", ".", "fa", "yuan">>, <<"case_in_court">>>>,
       <<<<"you", ".", ".", ".", "fa", "guan", "shen", "li_reason">>, <<"case_judged_by">>>>,
       <<<<"she", "ji", "dang", "shi_affair", "ren">>, <<"case_involved_party">>>>,
       <<<<"shi_fit", "yong", "fa", "lv">>, <<"case_applied_law">>>>,
       <<<<"zheng", "ju">>, <<"case_evidence">>>>,
       <<<<"dang", "shi_affair", "ren", "dai", "biao">>, <<"party_represented_by">>>>,
       <<<<"dang", "shi_affair", "ren", "dui", "kang">>, <<"party_against_party">>>>,
       <<<<"yin", "yong", "fa", "lv">>, <<"law_cited_by_case">>>>,
       <<<<"jie", "shi_explain", "fa", "lv">>, <<"law_interpreted_by_case">>>>,
       <<<<"li_stand", "an", "ri", "qi">>, <<"case_filed_date">>>>,
       <<<<"kai", "ting", "ri", "qi">>, <<"case_hearing_date">>>>,
       <<<<"pan", "jue", "ri", "qi">>, <<"case_judgment_date">>>>,
       <<<<"an", "jian", "jin", "e">>, <<"case_amount">>>>,
       <<<<"huo", "de", "jin", "e">>, <<"party_awarded_amount">>>> >>

\* RelationNormalizationAgent._normalize_predicate
NormalizePredicate(predicate) ==
    LET exact == {i \in 1..Len(PredicateAliases) : PredicateAliases[i][1] = predicate}
        fuzzy == {i \in 1..Len(PredicateAliases) :
                    \/ IsSubstring(PredicateAliases[i][1], predicate)
                    \/ IsSubstring(predicate, PredicateAliases[i][1])}
        First(S) == CHOOSE i \in S : \A j \in S : i <= j
    IN IF exact # {} THEN PredicateAliases[First(exact)][2]
       ELSE IF predicate \in DOMAIN RelationSchema THEN predicate
       ELSE IF fuzzy # {} THEN PredicateAliases[First(fuzzy)][2]
       ELSE predicate

\* RelationNormalizationAgent._build_entity_type_map
BuildEntityTypeMap(entities) ==
    LET ok == {i \in 1..Len(entities) :
                 /\ Get(entities[i], "entity_id", <<>>) # <<>>
                 /\ Get(entities[i], "entity_type", "") # ""}
        Last(id) == CHOOSE i \in ok : /\ entities[i].entity_id = id
                                      /\ \A j \in ok : entities[j].entity_id = id => j <= i
    IN [id \in {entities[i].entity_id : i \in ok} |-> entities[Last(id)].entity_type]

\* variant: only the type of the subject is compared with the schema
ValidateSchemaSubjectOnly(predicate, subject_id, object_id, entity_type_map) ==
    IF predicate \notin DOMAIN RelationSchema THEN FALSE
    ELSE Get(entity_type_map, subject_id, "") = RelationSchema[predicate][1]

\* RelationNormalizationAgent._validate_schema
ValidateSchema(predicate, subject_id, object_id, entity_type_map) ==
    IF predicate \notin DOMAIN RelationSchema THEN FALSE
    ELSE /\ Get(entity_type_map, subject_id, "") = RelationSchema[predicate][1]
         /\ Get(entity_type_map, object_id, "") = RelationSchema[predicate][2]

\* RelationNormalizationAgent._check_need_coref
CheckNeedCoref(subject_id, object_id, entity_type_map) ==
    \/ (subject_id # <<>> /\ subject_id \notin DOMAIN entity_type_map)
    \/ (object_id # <<>> /\ object_id \notin DOMAIN entity_type_map)

\* RelationNormalizationAgent._normalize_relation
NormalizeRelation(relation, entity_type_map) ==
    LET subject_id == Get(relation, "subject", <<>>)
        object_id == Get(relation, "object", <<>>)
        normalized_predicate == NormalizePredicate(Get(relation, "predicate", <<>>))
    IN [subject_entity_id |-> subject_id,
        predicate         |-> normalized_predicate,
        object_entity_id  |-> object_id,
        confidence        |-> Get(relation, "confidence", 10),
        evidence          |-> Get(relation, "evidence", ""),
        source_block_id   |-> Get(relation, "block_id", <<>>),
        need_coref        |-> CheckNeedCoref(subject_id, object_id, entity_type_map),
        validation_passed |-> ValidateSchema(normalized_predicate, subject_id, object_id,
                                            entity_type_map)]

\* variant: the key of a relation leaves the predicate out
RECURSIVE DeduplicateRelationsByEndpoints(_, _)
DeduplicateRelationsByEndpoints(relations, seen) ==
    IF relations = <<>> THEN <<>>
    ELSE LET r == Head(relations)
             key == <<r.subject_entity_id, r.object_entity_id>>
         IN IF key \in seen THEN DeduplicateRelationsByEndpoints(Tail(relations), seen)
            ELSE <<r>> \o DeduplicateRelationsByEndpoints(Tail(relations), seen \cup {key})

\* RelationNormalizationAgent._deduplicate_relations, seen being the keys
\* met so far
RECURSIVE DeduplicateRelations(_, _)
DeduplicateRelations(relations, seen) ==
    IF relations = <<>> THEN <<>>
    ELSE LET r == Head(relations)
             key == <<r.subject_entity_id, r.predicate, r.object_entity_id>>
         IN IF key \in seen THEN DeduplicateRelations(Tail(relations), seen)
            ELSE <<r>> \o DeduplicateRelations(Tail(relations), seen \cup {key})

\* the normalized relations of RelationNormalizationAgent.normalize
NormalizeRelations(raw_relations, entities) ==
    DeduplicateRelations(
        [i \in 1..Len(raw_relations) |->
            NormalizeRelation(raw_relations[i], BuildEntityTypeMap(entities))], {})

\* ------------------------------------------------------------------------
\* Coreference stage (src/src/langgraph_agents/coref_agent.py)
\* A score is a fraction <<numerator, denominator>>.
\* ------------------------------------------------------------------------
\* CorefAgent.max_hops
max_hops == 3

\* CorefAgent.similarity_threshold (0.5) as a fraction
similarity_threshold == <<1, 2>>

FracGeq(a, b) == a[1] * b[2] >= b[1] * a[2]

\* the adjacency list of node n in CorefAgent._build_entity_graph
RECURSIVE EdgesOf(_, _)
EdgesOf(relations, n) ==
    IF relations = <<>> THEN <<>>
    ELSE LET r == Head(relations)
             subject == Get(r, "subject_entity_id", <<>>)
             object_id == Get(r, "object_entity_id", <<>>)
             predicate == Get(r, "predicate", <<>>)
             both == subject # <<>> /\ object_id # <<>>
         IN (IF both /\ subject = n
             THEN <<[target |-> object_id, predicate |-> predicate, direction |-> "out"]>>
             ELSE <<>>) \o
            (IF both /\ object_id = n
             THEN <<[target |-> subject, predicate |-> predicate, direction |-> "in"]>>
             ELSE <<>>) \o
            EdgesOf(Tail(relations), n)

\* CorefAgent._build_entity_graph
BuildEntityGraph(relations) ==
    LET nodes == UNION {{Get(relations[i], "subject_entity_id", <<>>),
                         Get(relations[i], "object_entity_id", <<>>)} :
                        i \in {j \in 1..Len(relations) :
                                 /\ Get(relations[j], "subject_entity_id", <<>>) # <<>>
                                 /\ Get(relations[j], "object_entity_id", <<>>) # <<>>}}
    IN [n \in nodes |-> EdgesOf(relations, n)]

\* entity_map of CorefAgent.process: the last entity of each id
EntityMap(entities) ==
    LET Id(i) == Get(entities[i], "entity_id", <<>>)
        Last(id) == CHOOSE i \in 1..Len(entities) :
                       /\ Id(i) = id
                       /\ \A j \in 1..Len(entities) : Id(j) = id => j <= i
    IN [id \in {Id(i) : i \in 1..Len(entities)} |-> entities[Last(id)]]

\* CorefAgent._extract_pronoun_clues
ExtractPronounClues(pronoun) ==
    [text |-> pronoun,
     entity_types |->
        IF IsSubstring(BeiGao, pronoun) THEN <<"Party">>
        ELSE IF IsSubstring(YuanGao, pronoun) THEN <<"Party">>
        ELSE IF IsSubstring(<<"fa", "yuan">>, pronoun) THEN <<"Court">>
        ELSE IF IsSubstring(<<"fa", "guan">>, pronoun) THEN <<"Judge">>
        ELSE IF IsSubstring(<<"zheng", "ju">>, pronoun) THEN <<"Evidence">>
        ELSE <<>>,
     keywords |->
        IF IsSubstring(BeiGao, pronoun) THEN <<"defendant">>
        ELSE IF IsSubstring(YuanGao, pronoun) THEN <<"plaintiff">>
        ELSE <<>>,
     is_pure_pronoun |->
        pronoun \in {<<"ta1">>, <<"ta2">>, <<"ta3">>, <<"qi">>, <<"gai">>, <<"ci">>}]

\* the score _graph_bfs gives a visited node:
\* path_similarity * (0.3 + 0.7 * type_score)
CandidateScore(path_similarity, entity_type, clues) ==
    LET type_score2 == IF clues.entity_types # <<>>
                       THEN (IF entity_type \in Range(clues.entity_types) THEN 2 ELSE 1)
                       ELSE 0
    IN <<path_similarity[1] * (6 + 7 * type_score2), path_similarity[2] * 20>>

\* variant: no edge decays the path similarity
DecayNone(edge) == 10

\* the decay of one edge in _graph_bfs, in tenths
Decay(edge) ==
    IF edge.predicate \in {<<"case_involved_party">>, <<"party_against_party">>} THEN 8 ELSE 6

\* the loop over the edges of the current node in _graph_bfs:
\* <<queue, visited>> after the edges from index i on
RECURSIVE ExpandEdges(_, _, _, _, _, _)
ExpandEdges(edges, i, hops, path_similarity, queue, visited) ==
    IF i > Len(edges) THEN <<queue, visited>>
    ELSE IF edges[i].target \notin visited
         THEN ExpandEdges(edges, i + 1, hops, path_similarity,
                          Append(queue, <<edges[i].target, hops + 1,
                                          <<path_similarity[1] * Decay(edges[i]),
                                            path_similarity[2] * 10>>>>),
                          visited \cup {edges[i].target})
         ELSE ExpandEdges(edges, i + 1, hops, path_similarity, queue, visited)

\* the while loop of CorefAgent._graph_bfs
RECURSIVE BfsLoop(_, _, _, _, _, _, _, _)
BfsLoop(queue, visited, candidates, start_entity, clues, entity_graph, entity_map, hopLimit) ==
    IF queue = <<>> THEN candidates
    ELSE LET current_entity == Head(queue)[1]
             hops == Head(queue)[2]
             path_similarity == Head(queue)[3]
             entity_type == IF current_entity \in DOMAIN entity_map
                            THEN Get(entity_map[current_entity], "entity_type", "")
                            ELSE ""
             cands == IF current_entity = start_entity THEN candidates
                      ELSE Append(candidates,
                                  <<current_entity,
                                    CandidateScore(path_similarity, entity_type, clues)>>)
             next == IF hops < hopLimit /\ current_entity \in DOMAIN entity_graph
                     THEN ExpandEdges(entity_graph[current_entity], 1, hops,
                                      path_similarity, Tail(queue), visited)
                     ELSE <<Tail(queue), visited>>
         IN BfsLoop(next[1], next[2], cands, start_entity, clues, entity_graph,
                    entity_map, hopLimit)

\* variant: the search goes one hop further than the limit
GraphBfsOneHopMore(start_entity, clues, entity_graph, entity_map, hopLimit) ==
    BfsLoop(<< <<start_entity, 0, <<1, 1>>>> >>, {start_entity}, <<>>, start_entity,
            clues, entity_graph, entity_map, hopLimit + 1)

\* CorefAgent._graph_bfs
GraphBfs(start_entity, clues, entity_graph, entity_map, hopLimit) ==
    BfsLoop(<< <<start_entity, 0, <<1, 1>>>> >>, {start_entity}, <<>>, start_entity,
            clues, entity_graph, entity_map, hopLimit)

\* candidates.sort(key=score, reverse=True): stable, descending
RECURSIVE InsertByScore(_, _)
InsertByScore(sorted, c) ==
    IF sorted = <<>> THEN <<c>>
    ELSE IF FracGeq(Head(sorted)[2], c[2]) THEN <<Head(sorted)>> \o InsertByScore(Tail(sorted), c)
         ELSE <<c>> \o sorted

RECURSIVE SortByScore(_)
SortByScore(cands) ==
    IF cands = <<>> THEN <<>>
    ELSE InsertByScore(SortByScore(SubSeq(cands, 1, Len(cands) - 1)), cands[Len(cands)])

\* variant: the subject is the known endpoint whenever there is one
KnownEntityAnySubject(relation, entity_map) ==
    Get(relation, "subject_entity_id", <<>>)

\* the known endpoint CorefAgent._find_candidate_entities starts from
\* (<<>> when there is none)
KnownEntity(relation, entity_map) ==
    LET subject == Get(relation, "subject_entity_id", <<>>)
        object_id == Get(relation, "object_entity_id", <<>>)
    IN IF /\ subject # <<>> /\ subject \in DOMAIN entity_map
          /\ object_id # <<>> /\ object_id \notin DOMAIN entity_map
       THEN subject
       ELSE IF /\ object_id # <<>> /\ object_id \in DOMAIN entity_map
               /\ subject # <<>> /\ subject \notin DOMAIN entity_map
            THEN object_id
            ELSE <<>>

\* CorefAgent._find_candidate_entities
FindCandidateEntities(clues, entity_graph, entity_map, relation) ==
    IF KnownEntity(relation, entity_map) = <<>> THEN <<>>
    ELSE SortByScore(GraphBfs(KnownEntity(relation, entity_map), clues, entity_graph,
                              entity_map, max_hops))

\* variant: the last candidate wins
SelectBestCandidateLast(pronoun, candidates) ==
    IF candidates = <<>> THEN pronoun ELSE candidates[Len(candidates)][1]

\* CorefAgent._select_best_candidate
SelectBestCandidate(pronoun, candidates) ==
    LET Passes(c) == FracGeq(c[2], similarity_threshold)
        filtered == SelectSeq(candidates, Passes)
    IN IF candidates = <<>> THEN pronoun
       ELSE IF filtered = <<>> THEN candidates[1][1]
       ELSE filtered[1][1]

\* CorefAgent._resolve_pronoun
ResolvePronoun(pronoun, relation, entity_graph, entity_map) ==
    IF pronoun \in DOMAIN entity_map THEN pronoun
    ELSE LET candidates == FindCandidateEntities(ExtractPronounClues(pronoun),
                                                 entity_graph, entity_map, relation)
         IN IF candidates = <<>> THEN pronoun
            ELSE SelectBestCandidate(pronoun, candidates)

\* variant: every relation that went through resolution is marked resolved
ResolveRelationAlwaysMarked(relation, entity_graph, entity_map) ==
    LET subject == Get(relation, "subject_entity_id", <<>>)
        object_id == Get(relation, "object_entity_id", <<>>)
        resolved_subject == ResolvePronoun(subject, relation, entity_graph, entity_map)
        resolved_object == ResolvePronoun(object_id, relation, entity_graph, entity_map)
        r1 == IF resolved_subject # subject
              THEN WithKeys(relation, [subject_entity_id |-> resolved_subject,
                                       original_subject |-> subject])
              ELSE relation
        r2 == IF resolved_object # object_id
              THEN WithKeys(r1, [object_entity_id |-> resolved_object,
                                 original_object |-> object_id])
              ELSE r1
    IN WithKeys(r2, [was_resolved |-> TRUE])

\* CorefAgent._resolve_relation
ResolveRelation(relation, entity_graph, entity_map) ==
    LET subject == Get(relation, "subject_entity_id", <<>>)
        object_id == Get(relation, "object_entity_id", <<>>)
        resolved_subject == ResolvePronoun(subject, relation, entity_graph, entity_map)
        resolved_object == ResolvePronoun(object_id, relation, entity_graph, entity_map)
        r1 == IF resolved_subject # subject
              THEN WithKeys(relation, [subject_entity_id |-> resolved_subject,
                                       original_subject |-> subject])
              ELSE relation
        r2 == IF resolved_object # object_id
              THEN WithKeys(r1, [object_entity_id |-> resolved_object,
                                 original_object |-> object_id])
              ELSE r1
    IN WithKeys(r2, [was_resolved |-> (resolved_subject # subject
                                       \/ resolved_object # object_id)])

\* the resolved relations of CorefAgent.process
ResolveRelations(normalized_relations, entities) ==
    [i \in 1..Len(normalized_relations) |->
        ResolveRelation(normalized_relations[i], BuildEntityGraph(normalized_relations),
                        EntityMap(entities))]

\* ------------------------------------------------------------------------
\* Quality check stage (src/src/langgraph_agents/qa_agent.py) and settings
\* ------------------------------------------------------------------------
\* Settings.quality_threshold (0.8), in tenths
quality_threshold == 8

\* Python None
None == [none |-> TRUE]

\* None as the value of a stage name
NoStage == "<None>"

\* variant: the default report names a stage to go back to
DefaultReportNamingNer(reason) ==
    [quality_score |-> 5, entity_count |-> 0, relation_count |-> 0,
     issues |-> <<reason>>, recommendations |-> <<>>, backtrack_stage |-> "ner"]

\* QualityCheckAgent._get_default_report
DefaultReport(reason) ==
    [quality_score |-> 5, entity_count |-> 0, relation_count |-> 0,
     issues |-> <<reason>>, recommendations |-> <<>>, backtrack_stage |-> NoStage]

\* QualityCheckAgent._parse_response on an answer of the inference call
QaParseResponse(resp) ==
    IF resp.kind = "empty" THEN DefaultReport("empty response")
    ELSE IF resp.kind = "invalid" THEN DefaultReport("JSONDecodeError")
    ELSE [quality_score |-> resp.quality_score, entity_count |-> 0, relation_count |-> 0,
          issues |-> resp.issues, recommendations |-> <<>>,
          backtrack_stage |-> resp.backtrack_stage]

\* the report QualityCheckAgent.process stores when the check raised
QaFailureReport(st) ==
    [quality_score |-> 5, entity_count |-> Len(st.normalized_entities),
     relation_count |-> Len(st.normalized_relations),
     issues |-> <<"quality check failed">>, recommendations |-> <<>>]

\* variant: the counter is left as it is
IncrementBacktrackCountStuck(c) == c

\* state["backtrack_count"] += 1
IncrementBacktrackCount(c) == c + 1

\* the test of QualityCheckAgent.process that stops backtracking
QaExceeded(count, maxAttempts) == count > maxAttempts

\* the body of the try block of QualityCheckAgent.process
QaAssess(st, report, maxAttempts) ==
    IF report.quality_score < quality_threshold
    THEN [st EXCEPT !.backtrack_needed =
                        ~QaExceeded(IncrementBacktrackCount(st.backtrack_count), maxAttempts),
                    !.backtrack_stage = report.backtrack_stage,
                    !.backtrack_count = IncrementBacktrackCount(st.backtrack_count),
                    !.quality_report = report,
                    !.current_stage = "qa_completed"]
    ELSE [st EXCEPT !.backtrack_needed = FALSE,
                    !.quality_report = report,
                    !.current_stage = "qa_completed"]

\* ------------------------------------------------------------------------
\* Pipeline controller (src/src/langgraph_agents/graph.py, state.py)
\* ------------------------------------------------------------------------
\* the nodes of _build_graph in the order of its edges
Stages ==
    <<"document_parser", "ner", "normalization", "relation", "relation_norm", "coref", "qa">>

\* stage_mapping of _should_backtrack (a key maps to the node it names)
StageMapping == {"document_parser", "ner", "normalization", "relation", "relation_norm", "coref"}

\* the test of _should_backtrack that stops backtracking
RouteExhausted(count, maxAttempts) == count >= maxAttempts

\* variant: an unknown stage name restarts the pipeline
RouteTargetRestarting(backtrack_stage) ==
    IF backtrack_stage \in StageMapping THEN backtrack_stage ELSE "document_parser"

\* stage_mapping.get(backtrack_stage, "end")
RouteTarget(backtrack_stage) ==
    IF backtrack_stage \in StageMapping THEN backtrack_stage ELSE "end"

\* variant: backtrack_needed is not consulted
ShouldBacktrackIgnoringNeeded(st, maxAttempts) ==
    IF RouteExhausted(st.backtrack_count, maxAttempts) THEN "end"
    ELSE RouteTarget(st.backtrack_stage)

\* LegalExtractionGraph._should_backtrack: the next node or "end"
ShouldBacktrack(st, maxAttempts) ==
    IF ~st.backtrack_needed THEN "end"
    ELSE IF RouteExhausted(st.backtrack_count, maxAttempts) THEN "end"
    ELSE RouteTarget(st.backtrack_stage)

\* state.create_initial_state
create_initial_state(text) ==
    [raw_text |-> text, document_blocks |-> <<>>, entities |-> <<>>,
     block_entities |-> <<>>, resolved_entities |-> <<>>, normalized_entities |-> <<>>,
     relations |-> <<>>, normalized_relations |-> <<>>, quality_report |-> None,
     current_stage |-> "initial", backtrack_needed |-> FALSE, backtrack_stage |-> NoStage,
     backtrack_count |-> 0, error_messages |-> <<>>]

\* the dict LegalExtractionGraph.extract returns when the graph ended
SuccessResult(final_state) ==
    [text |-> final_state.raw_text,
     document_blocks |-> final_state.document_blocks,
     entities |-> final_state.normalized_entities,
     relations |-> final_state.normalized_relations,
     quality_report |-> final_state.quality_report,
     backtrack_count |-> final_state.backtrack_count,
     error_messages |-> final_state.error_messages,
     success |-> TRUE]

\* the dict LegalExtractionGraph.extract returns when a node raised e
FailureResult(text, e) ==
    [text |-> text, document_blocks |-> <<>>, entities |-> <<>>, relations |-> <<>>,
     quality_report |-> None, backtrack_count |-> 0, error_messages |-> <<e>>,
     success |-> FALSE]

\* ------------------------------------------------------------------------
\* Inputs of the model: documents, answers of the inference oracle, the
\* keyword sets of the word segmenter, the element set.pop() returns
\* ------------------------------------------------------------------------
ZhangSan == <<"zhang", "san">>
YuanGaoZhangSan == <<"yuan", "gao", "zhang", "san">>
LiSi == <<"li", "si">>

TextUniverse == {ZhangSan, YuanGaoZhangSan, LiSi, BeiGaoRen, BeiShenQingRen, BeiGao}

\* keyword sets PKUSegmenter.extract_keywords may return for the texts
SegNone == [t \in TextUniverse |-> {}]
SegSame == [t \in TextUniverse |-> {"k1"}]
SegMixed == [t \in TextUniverse |->
                IF t \in {ZhangSan, LiSi} THEN {"k1", "k2"}
                ELSE IF t = BeiGaoRen THEN {"k1"} ELSE {}]
SegModels == {SegNone, SegSame, SegMixed}

BlockTypeUniverse == {"FACT", "OTHER"}

\* the element set.pop() returns for each set of block types
HashPicks ==
    {f \in [SUBSET (BlockTypeUniverse \cup {""}) -> BlockTypeUniverse \cup {""}] :
        \A S \in SUBSET (BlockTypeUniverse \cup {""}) :
           IF S = {} THEN f[S] = "" ELSE f[S] \in S}

Heading == Line("H", "FACT", 4)
Plain == Line("P", "OTHER", 3)
Empty == Line("B", "OTHER", 0)

PipelineDocs ==
    { <<Plain>>, <<Heading>>, <<Heading, Plain>>, <<Plain, Empty, Heading, Plain>> }

OkNer(items) == [kind |-> "ok", items |-> items]

NerResponses ==
    { [kind |-> "raise", items |-> <<>>],
      [kind |-> "malformed", items |-> <<>>],
      OkNer(<<>>),
      OkNer(<<[type |-> "Party", text |-> BeiGao], [type |-> "Alien", text |-> LiSi],
              [type |-> "Party"]>>),
      OkNer(<<[type |-> "dangshiren", text |-> ZhangSan]>>),
      OkNer(<<[type |-> "Party", text |-> ZhangSan], [type |-> "Case", text |-> LiSi]>>) }

RelResponses ==
    { [kind |-> "raise", items |-> <<>>],
      [kind |-> "malformed", items |-> <<>>],
      [kind |-> "ok", items |-> <<>>],
      [kind |-> "ok", items |-> <<[subject |-> <<"entity", "1">>,
                                   predicate |-> <<"case_involved_party">>,
                                   object |-> <<"gai", "bei", "gao">>]>>] }

QaScores == {5, 8}

QaStageNames == StageMapping \cup {NoStage, "qa"}

QaResponses ==
    { [kind |-> k, quality_score |-> 0, issues |-> <<>>, backtrack_stage |-> NoStage] :
        k \in {"raise", "empty", "invalid"} }
    \cup
    { [kind |-> "ok", quality_score |-> sc, issues |-> <<>>, backtrack_stage |-> bs] :
        sc \in QaScores, bs \in QaStageNames }

\* ------------------------------------------------------------------------
\* State
\* ------------------------------------------------------------------------
VARIABLES
    pc,                      \* the node the graph executes next, "route" for the
                             \* conditional edge, "success" / "failed" when extract returned
    state,                   \* the ExtractionState of the run
    result,                  \* what extract returned (None before)
    max_backtrack_attempts,  \* settings.max_backtrack_attempts
    block_counter,           \* DocumentParser._block_counter
    entity_counter,          \* EntityNormalizer.entity_counter
    segKw,                   \* keyword sets of the loaded segmenter model
    hashPick,                \* the element set.pop() returns in this process
    qa_runs,                 \* history: executions of the qa node in this run
    reentries,               \* history: backtrack edges taken in this run
    qa_pre_count,            \* history: backtrack_count before the last qa node
    qa_response,             \* history: kind of the last answer given to the qa node
    reentered,               \* history: the node at pc was entered by a backtrack edge
    llm_raised,              \* history: stages whose inference call raised
    at_failure,              \* history: the ExtractionState when a node raised
    canon_in,                \* canonicalizer alone: the mentions given to normalize
    canon_out,               \* canonicalizer alone: clusters and entities returned
    call_in,                 \* a component called on its own: its arguments
    call_out                 \* a component called on its own: what it returned

vars == <<pc, state, result, max_backtrack_attempts, block_counter, entity_counter,
          segKw, hashPick, qa_runs, reentries, qa_pre_count, qa_response, reentered,
          llm_raised, at_failure, canon_in, canon_out, call_in, call_out>>

config == <<max_backtrack_attempts, segKw, hashPick>>

canonVars == <<canon_in, canon_out>>

callVars == <<call_in, call_out>>

\* bound of the history counter of qa executions
QaRunsCap == MaxBacktrackBound + 2

Terminal == {"success", "failed"}

Init ==
    /\ pc = "document_parser"
    /\ \E text \in PipelineDocs : state = create_initial_state(text)
    /\ result = None
    /\ max_backtrack_attempts \in 0..MaxBacktrackBound
    /\ block_counter = 0
    /\ entity_counter = 0
    /\ segKw \in {SegNone, SegSame}
    /\ hashPick \in HashPicks
    /\ qa_runs = 0
    /\ reentries = 0
    /\ qa_pre_count = 0
    /\ qa_response = "none"
    /\ reentered = FALSE
    /\ llm_raised = {}
    /\ at_failure = None
    /\ canon_in = <<>>
    /\ canon_out = None
    /\ call_in = None
    /\ call_out = None

\* a node raised e, the state being st: extract returns the failure dict
Raise(e, st) ==
    /\ pc' = "failed"
    /\ state' = st
    /\ at_failure' = st
    /\ result' = FailureResult(st.raw_text, e)

\* variant: the edge out of normalization leads past the relation node
GotoPastRelation(nxt, st) ==
    /\ pc' = IF nxt = "relation" THEN "relation_norm" ELSE nxt
    /\ state' = st
    /\ UNCHANGED <<at_failure, result>>

\* a node returned the state st: the graph follows the edge to nxt
Goto(nxt, st) ==
    /\ pc' = nxt
    /\ state' = st
    /\ UNCHANGED <<at_failure, result>>

\* ------------------------------------------------------------------------
\* The nodes of the graph
\* ------------------------------------------------------------------------
\* LegalExtractionGraph._document_parser_node
DocumentParserNode ==
    /\ pc = "document_parser"
    /\ LET blocks == parse(state.raw_text, block_counter)
       IN /\ block_counter' = block_counter + Len(blocks)
          /\ Goto("ner", [state EXCEPT !.document_blocks = blocks,
                                       !.current_stage = "document_parser_completed"])
    /\ reentered' = FALSE
    /\ UNCHANGED <<config, entity_counter, qa_runs, reentries, qa_pre_count, qa_response,
                   llm_raised, canonVars, callVars>>

\* LegalExtractionGraph._ner_node, NERAgent.process.  Without blocks the
\* full text is processed (_process_full_text): build_prompt calls .get on
\* state["quality_report"], which is None until the first quality check.
NerNode ==
    /\ pc = "ner"
    /\ IF state.document_blocks = <<>>
       THEN IF state.quality_report = None
            THEN /\ Raise("AttributeError", state)
                 /\ UNCHANGED llm_raised
            ELSE \E resp \in NerResponses :
                    IF resp.kind = "raise"
                    THEN /\ Raise("LLMError",
                                  [state EXCEPT !.error_messages =
                                                   Append(@, "NER failed: LLMError")])
                         /\ llm_raised' = llm_raised \cup {"ner"}
                    ELSE /\ Goto("normalization",
                                 [state EXCEPT !.entities = AssignEntityIds(NerProcessBlock(resp)),
                                               !.block_entities = <<>>,
                                               !.current_stage = "ner_completed"])
                         /\ UNCHANGED llm_raised
       ELSE \E resps \in [ContentBlocks(state.document_blocks) -> NerResponses] :
               LET all == AssignEntityIds(NerAllEntities(state.document_blocks, resps, 1))
               IN /\ Goto("normalization",
                          [state EXCEPT !.entities = all,
                                        !.block_entities =
                                            NerBlockEntities(state.document_blocks, resps, all),
                                        !.current_stage = "ner_completed"])
                  /\ llm_raised' = IF \E i \in DOMAIN resps : resps[i].kind = "raise"
                                   THEN llm_raised \cup {"ner"} ELSE llm_raised
    /\ reentered' = FALSE
    /\ UNCHANGED <<config, block_counter, entity_counter, qa_runs, reentries, qa_pre_count,
                   qa_response, canonVars, callVars>>

\* LegalExtractionGraph._normalization_node
NormalizationNode ==
    /\ pc = "normalization"
    /\ IF state.entities = <<>>
       THEN /\ Goto("relation", [state EXCEPT !.normalized_entities = <<>>])
            /\ UNCHANGED entity_counter
       ELSE LET normalized_entities == normalize(segKw, state.entities, entity_counter, hashPick)
            IN /\ Goto("relation",
                       [state EXCEPT !.normalized_entities = normalized_entities,
                                     !.current_stage = "normalization_completed"])
               /\ entity_counter' = entity_counter + Len(normalized_entities)
    /\ reentered' = FALSE
    /\ UNCHANGED <<config, block_counter, qa_runs, reentries, qa_pre_count, qa_response,
                   llm_raised, canonVars, callVars>>

\* LegalExtractionGraph._relation_node, RelationAgent.process.  Without
\* blocks the full text is processed (_process_full_text): build_prompt
\* calls .get on state["quality_report"] and reads e['id'] of every
\* normalized entity, which has no such key.
RelationNode ==
    /\ pc = "relation"
    /\ IF state.normalized_entities = <<>>
       THEN /\ Goto("relation_norm", [state EXCEPT !.relations = <<>>])
            /\ UNCHANGED llm_raised
       ELSE IF state.document_blocks = <<>>
            THEN /\ Raise(IF state.quality_report = None THEN "AttributeError"
                          ELSE "KeyError: 'id'", state)
                 /\ UNCHANGED llm_raised
            ELSE \E resps \in [ContentBlocks(state.document_blocks) -> RelResponses] :
                    /\ Goto("relation_norm",
                            [state EXCEPT !.relations =
                                              RelDeduplicate(
                                                  RelAllRelations(state.document_blocks, resps,
                                                                  state.block_entities,
                                                                  state.normalized_entities, 1),
                                                  {}),
                                          !.current_stage = "relation_completed"])
                    /\ llm_raised' =
                          IF \E i \in DOMAIN resps :
                                /\ resps[i].kind = "raise"
                                /\ Get(state.block_entities,
                                       state.document_blocks[i].block_id, <<>>) # <<>>
                          THEN llm_raised \cup {"relation"} ELSE llm_raised
    /\ reentered' = FALSE
    /\ UNCHANGED <<config, block_counter, entity_counter, qa_runs, reentries, qa_pre_count,
                   qa_response, canonVars, callVars>>

\* LegalExtractionGraph._relation_norm_node, RelationNormalizationAgent.normalize
RelationNormNode ==
    /\ pc = "relation_norm"
    /\ IF state.relations = <<>>
       THEN Goto("coref", [state EXCEPT !.normalized_relations = <<>>])
       ELSE Goto("coref", [state EXCEPT !.normalized_relations =
                                            NormalizeRelations(state.relations,
                                                               state.normalized_entities)])
    /\ reentered' = FALSE
    /\ UNCHANGED <<config, block_counter, entity_counter, qa_runs, reentries, qa_pre_count,
                   qa_response, llm_raised, canonVars, callVars>>

\* LegalExtractionGraph._coref_node, CorefAgent.process
CorefNode ==
    /\ pc = "coref"
    /\ IF state.normalized_relations = <<>> \/ state.normalized_entities = <<>>
       THEN Goto("qa", [state EXCEPT !.resolved_entities = state.normalized_entities])
       ELSE Goto("qa", [state EXCEPT !.normalized_relations =
                                         ResolveRelations(state.normalized_relations,
                                                          state.normalized_entities),
                                     !.resolved_entities = state.normalized_entities,
                                     !.current_stage = "coref_completed"])
    /\ reentered' = FALSE
    /\ UNCHANGED <<config, block_counter, entity_counter, qa_runs, reentries, qa_pre_count,
                   qa_response, llm_raised, canonVars, callVars>>

\* LegalExtractionGraph._qa_node, QualityCheckAgent.process.  build_prompt
\* runs before the try block; _create_entity_summary reads e["type"] of
\* every normalized entity, which has no such key.
QaNode ==
    /\ pc = "qa"
    /\ qa_runs < QaRunsCap
    /\ qa_runs' = qa_runs + 1
    /\ qa_pre_count' = state.backtrack_count
    /\ IF state.normalized_entities # <<>>
       THEN /\ Raise("KeyError: 'type'", state)
            /\ UNCHANGED <<llm_raised, qa_response>>
       ELSE \E resp \in QaResponses :
               /\ qa_response' = resp.kind
               /\ IF resp.kind = "raise"
                  THEN /\ Raise("LLMError",
                                [state EXCEPT !.error_messages =
                                                  Append(@, "quality check failed: LLMError"),
                                              !.backtrack_needed = FALSE,
                                              !.quality_report = QaFailureReport(state)])
                       /\ llm_raised' = llm_raised \cup {"qa"}
                  ELSE /\ Goto("route", QaAssess(state, QaParseResponse(resp),
                                                 max_backtrack_attempts))
                       /\ UNCHANGED llm_raised
    /\ reentered' = FALSE
    /\ UNCHANGED <<config, block_counter, entity_counter, reentries, canonVars, callVars>>

\* the conditional edge after qa (_should_backtrack); at END invoke returns
\* and extract builds its result
Route ==
    /\ pc = "route"
    /\ LET target == ShouldBacktrack(state, max_backtrack_attempts)
       IN IF target = "end"
          THEN /\ pc' = "success"
               /\ result' = SuccessResult(state)
               /\ UNCHANGED <<reentries, reentered>>
          ELSE /\ pc' = target
               /\ reentries' = reentries + 1
               /\ reentered' = TRUE
               /\ UNCHANGED result
    /\ UNCHANGED <<state, config, block_counter, entity_counter, qa_runs, qa_pre_count,
                   qa_response, llm_raised, at_failure, canonVars, callVars>>

Next ==
    \/ DocumentParserNode
    \/ NerNode
    \/ NormalizationNode
    \/ RelationNode
    \/ RelationNormNode
    \/ CorefNode
    \/ QaNode
    \/ Route

Spec == Init /\ [][Next]_vars

\* One step of the run as seen from the position in the graph: some node or
\* edge executes and the position changes.  Every step of Next changes pc,
\* and GraphStep is enabled exactly where Next is (the qa node is the only
\* one with a guard), so a step of Next is a step <<GraphStep>>_pc.
GraphStep ==
    /\ pc \notin Terminal
    /\ pc = "qa" => qa_runs < QaRunsCap
    /\ \E p \in Range(Stages) \cup {"route"} \cup Terminal : pc' = p

\* graph.invoke runs the nodes in one synchronous loop: while a node or an
\* edge can execute, it does
FairSpec == Spec /\ WF_pc(GraphStep)

TypeOK ==
    /\ pc \in Range(Stages) \cup {"route"} \cup Terminal
    /\ max_backtrack_attempts \in 0..MaxBacktrackBound
    /\ state.backtrack_count \in Nat
    /\ qa_runs \in 0..QaRunsCap

\* ------------------------------------------------------------------------
\* Properties of the backtracking controller
\* ------------------------------------------------------------------------
\* C1: in every reachable state of a run, for every configured
\* max_backtrack_attempts >= 0 and every sequence of quality reports,
\* backtrack_count <= max_backtrack_attempts.
C1_BacktrackCountBounded ==
    state.backtrack_count <= max_backtrack_attempts

\* a state where the counter is above the configured maximum
C1_CountAboveMax ==
    /\ pc = "success"
    /\ result.backtrack_count > max_backtrack_attempts

\* C2: every run eventually reaches a terminal state (success or failed)
\* whatever the oracle answers, and the qa node executes at most
\* max_backtrack_attempts + 1 times in one run.
C2_TerminatesWithinPasses ==
    /\ <>(pc \in Terminal)
    /\ [](qa_runs <= max_backtrack_attempts + 1)

\* a run that went back once and ended after its second quality check
C2_EndedAfterBacktrack ==
    /\ pc \in Terminal
    /\ reentries = 1
    /\ qa_runs = 2

\* C3: after a quality check whose score is at least the threshold, or that
\* started with backtrack_count already at max_backtrack_attempts, the next
\* step is the end of the run: no node executes, the result has success
\* true, carries the quality report of that check, and no error.
C3_AcceptOrExhaustedEnds ==
    [][ ( /\ pc = "route"
          /\ \/ state.quality_report.quality_score >= quality_threshold
             \/ qa_pre_count >= max_backtrack_attempts )
        => ( /\ pc' = "success"
             /\ result'.success
             /\ result'.quality_report = state.quality_report
             /\ result'.error_messages = <<>> ) ]_vars

\* a run that ended in success with a report below the threshold because
\* the counter had reached the maximum before the check
C3_ExhaustedSuccess ==
    /\ pc = "success"
    /\ qa_pre_count >= max_backtrack_attempts
    /\ result.quality_report.quality_score < quality_threshold
    /\ result.success
    /\ result.error_messages = <<>>

\* C4: after a quality check whose score is below the threshold, that
\* started with backtrack_count below max_backtrack_attempts and whose
\* report names a recognized stage, backtrack_count is one more than before
\* the check and the next node executed is the named stage.
C4_BacktrackTaken ==
    [][ ( /\ pc = "route"
          /\ state.quality_report.quality_score < quality_threshold
          /\ qa_pre_count < max_backtrack_attempts
          /\ state.quality_report.backtrack_stage \in StageMapping )
        => ( /\ state.backtrack_count = qa_pre_count + 1
             /\ pc' = state.quality_report.backtrack_stage ) ]_vars

\* a run that ended although the check before was below the threshold,
\* named a recognized stage and started with the counter below the maximum
C4_BacktrackRefused ==
    /\ pc = "success"
    /\ result.quality_report.quality_score < quality_threshold
    /\ qa_pre_count < max_backtrack_attempts
    /\ result.quality_report.backtrack_stage \in StageMapping

\* C5: after a quality check whose score is below the threshold and whose
\* report names no stage or an unrecognized one, the next step is the end
\* of the run in success: no node is executed again.
C5_UnknownStageEnds ==
    [][ ( /\ pc = "route"
          /\ state.quality_report.quality_score < quality_threshold
          /\ state.quality_report.backtrack_stage \notin StageMapping )
        => ( /\ pc' = "success"
             /\ result'.success ) ]_vars

\* a run that ended in success on an unrecognized stage name while the
\* counter still allowed a backtrack
C5_UnknownStageSuccess ==
    /\ pc = "success"
    /\ result.quality_report.quality_score < quality_threshold
    /\ result.quality_report.backtrack_stage = "qa"
    /\ result.backtrack_count < max_backtrack_attempts

\* C6: when the controller goes back to stage S, every state field written
\* by S or by a later extraction stage in the previous pass is empty again
\* before S executes.
C6_DiscardedOnBacktrack ==
    LET Produced == [document_parser |-> {"document_blocks"},
                     ner |-> {"entities", "block_entities"},
                     normalization |-> {"normalized_entities"},
                     relation |-> {"relations"},
                     relation_norm |-> {"normalized_relations"},
                     coref |-> {"resolved_entities"}]
        Index(S) == CHOOSE i \in 1..Len(Stages) : Stages[i] = S
    IN reentered =>
          \A i \in Index(pc)..(Len(Stages) - 1) :
             \A f \in Produced[Stages[i]] : state[f] = <<>>

\* a stage entered by a backtrack edge that finds its own earlier output
C6_StaleOutputAtReentry ==
    /\ reentered
    /\ pc = "document_parser"
    /\ state.document_blocks # <<>>

\* C7: if a stage raises, extract returns success false together with the
\* outputs of the stages completed before (blocks, entities, relations,
\* backtrack_count) and every error message the state held at the failure.
C7_FailureKeepsPartialState ==
    pc = "failed" =>
       /\ ~result.success
       /\ result.document_blocks = at_failure.document_blocks
       /\ result.entities = at_failure.normalized_entities
       /\ result.relations = at_failure.normalized_relations
       /\ result.backtrack_count = at_failure.backtrack_count
       /\ \A i \in DOMAIN at_failure.error_messages :
             \E j \in DOMAIN result.error_messages :
                result.error_messages[j] = at_failure.error_messages[i]

\* a failed run whose result has lost the blocks the state held
C7_FailureLostBlocks ==
    /\ pc = "failed"
    /\ at_failure.document_blocks # <<>>
    /\ result.document_blocks = <<>>

\* C8: once the inference call of entity extraction or of relation
\* extraction has raised for a block, the run is failed: no later stage
\* executes on an empty result put in place of that block's.
C8_InferenceFailureIsFatal ==
    (llm_raised \cap {"ner", "relation"} # {}) => pc = "failed"

\* a run that ended in success although the inference call of entity
\* extraction had raised
C8_SuccessAfterRaise ==
    /\ pc = "success"
    /\ "ner" \in llm_raised

\* C9: if the quality oracle answers with empty text or text that is not
\* JSON, the quality report is the default report (score 0.5, no
\* backtrack stage), no node is executed again and the run ends in success.
C9_MalformedReportDegrades ==
    [][ /\ ( pc = "qa" /\ pc' # "failed" /\ qa_response' \in {"empty", "invalid"} )
           => ( /\ pc' = "route"
                /\ state'.quality_report.quality_score = 5
                /\ state'.quality_report.backtrack_stage = NoStage )
        /\ ( pc = "route" /\ qa_response \in {"empty", "invalid"} )
           => ( /\ pc' = "success"
                /\ result'.success
                /\ result'.quality_report = state.quality_report ) ]_vars

\* a run that ended in success on a default report while the counter
\* still allowed a backtrack
C9_DefaultReportSuccess ==
    /\ pc = "success"
    /\ qa_response = "invalid"
    /\ result.quality_report.quality_score = 5
    /\ result.backtrack_count < max_backtrack_attempts

\* ------------------------------------------------------------------------
\* The entity normalizer on its own: EntityNormalizer.normalize called on a
\* list of mentions
\* ------------------------------------------------------------------------
Mention(text, entity_type, n, block_type) ==
    [text |-> text, entity_type |-> entity_type, block_id |-> <<"block", n>>,
     block_type |-> block_type]

MentionUniverse ==
    { Mention(ZhangSan, "Party", 1, "FACT"),
      Mention(YuanGaoZhangSan, "Party", 2, "OTHER"),
      Mention(LiSi, "Party", 1, "FACT"),
      Mention(BeiGaoRen, "Party", 2, "OTHER"),
      Mention(BeiShenQingRen, "Party", 1, "FACT"),
      Mention(BeiGao, "Party", 1, "FACT"),
      Mention(LiSi, "Lawyer", 2, "OTHER"),
      [text |-> ZhangSan, type |-> "Party", id |-> <<"Party", "1">>] }

MentionLists == UNION { [1..n -> MentionUniverse] : n \in 0..MaxMentions }

InitCanon ==
    /\ pc = "canonicalize"
    /\ state = create_initial_state(<<>>)
    /\ result = None
    /\ max_backtrack_attempts = 0
    /\ block_counter = 0
    /\ entity_counter = 0
    /\ segKw \in SegModels
    /\ hashPick \in HashPicks
    /\ qa_runs = 0
    /\ reentries = 0
    /\ qa_pre_count = 0
    /\ qa_response = "none"
    /\ reentered = FALSE
    /\ llm_raised = {}
    /\ at_failure = None
    /\ canon_in \in MentionLists
    /\ canon_out = None
    /\ call_in = None
    /\ call_out = None

\* EntityNormalizer.normalize(canon_in)
Canonicalize ==
    /\ pc = "canonicalize"
    /\ pc' = "canonicalized"
    /\ canon_out' = [clusters |-> Clusters(segKw, canon_in),
                     entities |-> normalize(segKw, canon_in, entity_counter, hashPick)]
    /\ entity_counter' = entity_counter + Len(canon_out'.entities)
    /\ UNCHANGED <<state, result, config, block_counter, qa_runs, reentries, qa_pre_count,
                   qa_response, reentered, llm_raised, at_failure, canon_in, callVars>>

NextCanon == Canonicalize

SpecCanon == InitCanon /\ [][NextCanon]_vars

\* C10: the clusters normalize builds partition its input: every input
\* mention is in exactly one cluster, the cluster sizes sum to the number
\* of input mentions, and each returned entity lists the names of the
\* mentions of its cluster.
C10_ClustersPartitionInput ==
    pc = "canonicalized" =>
       LET clusters == canon_out.clusters
           entities == canon_out.entities
           Places(i) == {<<k, j>> \in (1..Len(clusters)) \X (1..Len(canon_in)) :
                            j <= Len(clusters[k]) /\ clusters[k][j] = i}
       IN /\ \A k \in 1..Len(clusters) : Range(clusters[k]) \subseteq 1..Len(canon_in)
          /\ \A i \in 1..Len(canon_in) : Cardinality(Places(i)) = 1
          /\ SeqSum([k \in 1..Len(clusters) |-> Len(clusters[k])]) = Len(canon_in)
          /\ Len(entities) = Len(clusters)
          /\ \A k \in 1..Len(clusters) :
                entities[k].original_names =
                    [j \in 1..Len(clusters[k]) |-> Get(canon_in[clusters[k][j]], "text", <<>>)]

\* a call that merged mentions into one cluster and kept another apart
C10_MergedAndApart ==
    /\ pc = "canonicalized"
    /\ Len(canon_in) = 3
    /\ Len(canon_out.clusters) = 2
    /\ \E k \in 1..2 : Len(canon_out.clusters[k]) = 2
    /\ \E i, j \in 1..3 : GroupType(canon_in[i]) # GroupType(canon_in[j])

\* ------------------------------------------------------------------------
\* A component called on its own: the run of the graph stays where
\* create_initial_state left it
\* ------------------------------------------------------------------------
IdleRun ==
    /\ state = create_initial_state(<<>>)
    /\ result = None
    /\ max_backtrack_attempts = 0
    /\ block_counter = 0
    /\ entity_counter = 0
    /\ segKw = SegNone
    /\ hashPick = CHOOSE f \in HashPicks : TRUE
    /\ qa_runs = 0
    /\ reentries = 0
    /\ qa_pre_count = 0
    /\ qa_response = "none"
    /\ reentered = FALSE
    /\ llm_raised = {}
    /\ at_failure = None
    /\ canon_in = <<>>
    /\ canon_out = None

idleVars ==
    <<state, result, config, block_counter, entity_counter, qa_runs, reentries,
      qa_pre_count, qa_response, reentered, llm_raised, at_failure, canonVars>>

\* ------------------------------------------------------------------------
\* Relation normalization on its own: RelationNormalizationAgent.normalize
\* on a list of raw relations and a list of normalized entities
\* ------------------------------------------------------------------------
CaseEntity == [entity_id |-> <<"entity", "1">>, entity_type |-> "Case"]
PartyEntity == [entity_id |-> <<"entity", "2">>, entity_type |-> "Party"]

GaiBeiGao == <<"gai", "bei", "gao">>

RawRelation(s, p, o) == [subject |-> s, predicate |-> p, object |-> o]

RawRelationUniverse ==
    { RawRelation(CaseEntity.entity_id, <<"case_involved_party">>, PartyEntity.entity_id),
      RawRelation(CaseEntity.entity_id, <<"she", "ji", "dang", "shi_affair", "ren">>,
                  PartyEntity.entity_id),
      RawRelation(CaseEntity.entity_id, <<"dang", "shi_affair", "ren">>,
                  PartyEntity.entity_id),
      RawRelation(CaseEntity.entity_id, <<"case_in_court">>, PartyEntity.entity_id),
      RawRelation(GaiBeiGao, <<"case_involved_party">>, CaseEntity.entity_id),
      [subject |-> CaseEntity.entity_id, predicate |-> <<"case_involved_party">>,
       object |-> PartyEntity.entity_id, confidence |-> 5, evidence |-> "e2",
       block_id |-> <<"block", 2>>],
      RawRelation(CaseEntity.entity_id, <<"unknown">>, PartyEntity.entity_id),
      RawRelation(<<>>, <<"case_involved_party">>, PartyEntity.entity_id),
      RawRelation(CaseEntity.entity_id, <<"case_involved_party">>, GaiBeiGao) }

RawRelationLists == UNION { [1..n -> RawRelationUniverse] : n \in 0..MaxRelations }

InitRelNorm ==
    /\ pc = "relation_norm_call"
    /\ IdleRun
    /\ \E rels \in RawRelationLists :
          \E ents \in {<<CaseEntity, PartyEntity>>, <<CaseEntity>>} :
             call_in = [relations |-> rels, normalized_entities |-> ents]
    /\ call_out = None

\* RelationNormalizationAgent.normalize on a state holding call_in
NormalizeCall ==
    /\ pc = "relation_norm_call"
    /\ pc' = "relation_norm_returned"
    /\ call_out' = IF call_in.relations = <<>> THEN <<>>
                   ELSE NormalizeRelations(call_in.relations, call_in.normalized_entities)
    /\ UNCHANGED <<idleVars, call_in>>

NextRelNorm == NormalizeCall

SpecRelNorm == InitRelNorm /\ [][NextRelNorm]_vars

\* C11: the output of relation normalization is the sequence of the
\* normalized input relations without those whose (subject, normalized
\* predicate, object) triple is that of an earlier one: no two output
\* relations share a triple, the first occurrence is kept, the order is
\* kept, and nothing else is removed (relations failing the schema stay).
C11_StableDeduplication ==
    pc = "relation_norm_returned" =>
       LET raw == call_in.relations
           tmap == BuildEntityTypeMap(call_in.normalized_entities)
           N == [i \in 1..Len(raw) |-> NormalizeRelation(raw[i], tmap)]
           Triple(r) == <<r.subject_entity_id, r.predicate, r.object_entity_id>>
           Firsts == {i \in 1..Len(raw) : \A j \in 1..(i - 1) : Triple(N[j]) # Triple(N[i])}
           Rank(i) == Cardinality({j \in Firsts : j <= i})
       IN /\ Len(call_out) = Cardinality(Firsts)
          /\ \A i \in Firsts : call_out[Rank(i)] = N[i]
          /\ \A a, b \in 1..Len(call_out) :
                Triple(call_out[a]) = Triple(call_out[b]) => a = b

\* a call that removed the later of two relations made equal by the
\* normalization of the predicate and kept one that fails the schema
C11_DuplicateRemovedInvalidKept ==
    /\ pc = "relation_norm_returned"
    /\ Len(call_in.relations) = 3
    /\ call_in.relations[1].predicate # call_in.relations[2].predicate
    /\ Len(call_out) = 2
    /\ call_out[1].validation_passed
    /\ ~call_out[2].validation_passed
    /\ call_out[2].predicate = <<"case_in_court">>

\* ------------------------------------------------------------------------
\* The document parser on its own: DocumentParser.parse on a text, and
\* DocumentParser._build_hierarchy on a list of blocks in order of start_pos
\* ------------------------------------------------------------------------
Numbered == Line("N1", "OTHER", 5)
Spaces == Line("W", "OTHER", 2)

LineUniverse == {Heading, Plain, Empty, Spaces, Numbered}

Texts == UNION { [1..n -> LineUniverse] : n \in 0..MaxLines }

LevelUniverse == 0..4

\* blocks as _build_blocks lays them out, with the levels given
LevelledBlocks(levels) ==
    [i \in 1..Len(levels) |->
        Block(GenerateBlockId(i - 1), "OTHER", NoTitle, <<>>, i - 1, i, levels[i])]

BlockLists == { LevelledBlocks(lv) : lv \in UNION { [1..n -> LevelUniverse] : n \in 1..MaxLines } }

InitSegment ==
    /\ IdleRun
    /\ \/ pc = "parse_call" /\ call_in \in Texts
       \/ pc = "build_hierarchy_call" /\ call_in \in BlockLists
    /\ call_out = None

\* DocumentParser.parse(call_in)
ParseCall ==
    /\ pc = "parse_call"
    /\ pc' = "parse_returned"
    /\ call_out' = parse(call_in, block_counter)
    /\ block_counter' = block_counter + Len(call_out')
    /\ UNCHANGED <<state, result, config, entity_counter, qa_runs, reentries, qa_pre_count,
                   qa_response, reentered, llm_raised, at_failure, canonVars, call_in>>

\* DocumentParser._build_hierarchy with self.blocks = call_in
BuildHierarchyCall ==
    /\ pc = "build_hierarchy_call"
    /\ pc' = "build_hierarchy_returned"
    /\ call_out' = BuildHierarchy(call_in)
    /\ UNCHANGED <<idleVars, call_in>>

NextSegment == ParseCall \/ BuildHierarchyCall

SpecSegment == InitSegment /\ [][NextSegment]_vars

\* C12: for any input text the spans [start_pos, end_pos) of the blocks
\* parse returns, in order, cover the cleaned text from offset 0 to its
\* length with no gap and no overlap.
C12_SpansCoverText ==
    pc = "parse_returned" =>
       IF call_out = <<>> THEN TextLen(CleanText(call_in)) = 0
       ELSE /\ call_out[1].start_pos = 0
            /\ call_out[Len(call_out)].end_pos = TextLen(CleanText(call_in))
            /\ \A i \in 1..Len(call_out) : call_out[i].start_pos <= call_out[i].end_pos
            /\ \A i \in 1..(Len(call_out) - 1) :
                  call_out[i].end_pos = call_out[i + 1].start_pos

\* a text of some length for which parse returned no block
C12_TextWithoutBlocks ==
    /\ pc = "parse_returned"
    /\ call_out = <<>>
    /\ TextLen(CleanText(call_in)) > 0

\* C13: when no line of the text is recognized as a heading, parse returns
\* exactly one block, of type OTHER, with level 0, no parent_id and a span
\* covering the whole cleaned text.
C13_NoHeadingOneBlock ==
    ( /\ pc = "parse_returned"
      /\ \A i \in 1..Len(call_in) : call_in[i].cls # "H" )
    => /\ Len(call_out) = 1
       /\ call_out[1].block_type = "OTHER"
       /\ call_out[1].level = 0
       /\ call_out[1].parent_id = <<>>
       /\ call_out[1].start_pos = 0
       /\ call_out[1].end_pos = TextLen(CleanText(call_in))

\* a text of two non-blank lines without a heading for which parse
\* returned no block
C13_NoHeadingNoBlock ==
    /\ pc = "parse_returned"
    /\ Len(call_in) = 2
    /\ \A i \in 1..2 : call_in[i].cls \in {"P", "N1"}
    /\ Len(call_out) = 0

\* C14: in what parse and _build_hierarchy return, a block with level > 0
\* has no parent_id or one that names an earlier block whose level is
\* positive and smaller than its own; a block with level 0 has no parent.
C14_ParentIsEarlierAndShallower ==
    pc \in {"parse_returned", "build_hierarchy_returned"} =>
       \A i \in 1..Len(call_out) :
          \/ call_out[i].parent_id = <<>>
          \/ /\ call_out[i].level > 0
             /\ \E j \in 1..(i - 1) :
                   /\ call_out[j].block_id = call_out[i].parent_id
                   /\ call_out[j].level > 0
                   /\ call_out[j].level < call_out[i].level

\* blocks of levels 1, 2, 1, 2: the second has the first as parent, the
\* third has none, the fourth has the third
C14_NestedThenSibling ==
    /\ pc = "build_hierarchy_returned"
    /\ Len(call_out) = 4
    /\ call_out[2].parent_id = call_out[1].block_id
    /\ call_out[3].level = 1
    /\ call_out[3].parent_id = <<>>
    /\ call_out[4].parent_id = call_out[3].block_id

\* ------------------------------------------------------------------------
\* The coreference stage on its own: CorefAgent.process on normalized
\* relations and normalized entities, and CorefAgent._graph_bfs on a graph,
\* a start entity and a hop limit
\* ------------------------------------------------------------------------
GaiYuanGao == <<"gai", "yuan", "gao">>
Ta == <<"ta1">>
Involves == <<"involves">>

CorefEntities == <<CaseEntity, PartyEntity>>

\* a relation as relation normalization hands it to the coreference stage
NormRel(s, p, o) == NormalizeRelation(RawRelation(s, p, o), BuildEntityTypeMap(CorefEntities))

CorefRelationUniverse ==
    { NormRel(CaseEntity.entity_id, Involves, PartyEntity.entity_id),
      NormRel(GaiBeiGao, Involves, CaseEntity.entity_id),
      NormRel(CaseEntity.entity_id, <<"case_involved_party">>, GaiYuanGao),
      NormRel(CaseEntity.entity_id, <<"case_involved_party">>, GaiBeiGao),
      NormRel(GaiBeiGao, <<"party_against_party">>, GaiYuanGao),
      NormRel(CaseEntity.entity_id, <<"case_involved_party">>, PartyEntity.entity_id),
      NormRel(Ta, Involves, PartyEntity.entity_id) }

CorefRelationLists ==
    UNION { [1..n -> CorefRelationUniverse] : n \in 0..MaxCorefRelations }

BfsNodes == { <<"entity", "1">>, <<"entity", "2">>, <<"entity", "3">> }

BfsEdgeUniverse ==
    { NormRel(a, Involves, b) : a \in BfsNodes, b \in BfsNodes \ {<<"entity", "1">>} }

BfsEdgeLists == UNION { [1..n -> BfsEdgeUniverse] : n \in 0..MaxEdges }

InitCoref ==
    /\ IdleRun
    /\ \/ /\ pc = "coref_call"
          /\ \E rels \in CorefRelationLists :
                call_in = [normalized_relations |-> rels, normalized_entities |-> CorefEntities]
       \/ /\ pc = "graph_bfs_call"
          /\ \E rels \in BfsEdgeLists, start \in BfsNodes, hops \in 0..MaxHopLimit :
                call_in = [relations |-> rels, start_entity |-> start, max_hops |-> hops]
    /\ call_out = None

\* CorefAgent.process on a state holding call_in: the normalized relations
\* it leaves in the state
CorefCall ==
    /\ pc = "coref_call"
    /\ pc' = "coref_returned"
    /\ call_out' = IF call_in.normalized_relations = <<>> \/ call_in.normalized_entities = <<>>
                   THEN call_in.normalized_relations
                   ELSE ResolveRelations(call_in.normalized_relations,
                                         call_in.normalized_entities)
    /\ UNCHANGED <<idleVars, call_in>>

\* CorefAgent._graph_bfs on the graph of call_in.relations, with the clues
\* of GaiBeiGao and the entity map of CorefEntities
GraphBfsCall ==
    /\ pc = "graph_bfs_call"
    /\ pc' = "graph_bfs_returned"
    /\ call_out' = GraphBfs(call_in.start_entity, ExtractPronounClues(GaiBeiGao),
                            BuildEntityGraph(call_in.relations), EntityMap(CorefEntities),
                            call_in.max_hops)
    /\ UNCHANGED <<idleVars, call_in>>

NextCoref == CorefCall \/ GraphBfsCall

SpecCoref == InitCoref /\ [][NextCoref]_vars

\* the example of the specification, with the predicate "involves"
CorefExample ==
    << NormRel(CaseEntity.entity_id, Involves, PartyEntity.entity_id),
       NormRel(GaiBeiGao, Involves, CaseEntity.entity_id) >>

\* the score _graph_bfs gives PartyEntity when it searches for GaiBeiGao in
\* the example
CorefExampleScore ==
    LET cands == GraphBfs(CaseEntity.entity_id, ExtractPronounClues(GaiBeiGao),
                          BuildEntityGraph(CorefExample), EntityMap(CorefEntities), max_hops)
        k == CHOOSE i \in 1..Len(cands) : cands[i][1] = PartyEntity.entity_id
    IN cands[k][2]

\* C15 (as the code has it): on the example the search from the case finds
\* the party at hop 1 with score 0.6 x (0.3 + 0.7 x 1.0) = 0.6 >= 0.5, the
\* edge "involves" decaying the path similarity to 0.6, and the pronoun is
\* replaced by the party.
C15_ExampleResolvesWithDecay ==
    (pc = "coref_returned" /\ call_in.normalized_relations = CorefExample) =>
       /\ CorefExampleScore[1] * 10 = 6 * CorefExampleScore[2]
       /\ FracGeq(CorefExampleScore, similarity_threshold)
       /\ call_out[2].subject_entity_id = PartyEntity.entity_id
       /\ call_out[2].original_subject = GaiBeiGao
       /\ call_out[2].was_resolved
       /\ ~call_out[1].was_resolved

\* C15 (as stated): on the example the search from the case finds the party
\* at hop 1 with score 1.0 (>= 0.5), and the pronoun is replaced by the
\* party.
C15_ExampleResolvesWithScoreOne ==
    (pc = "coref_returned" /\ call_in.normalized_relations = CorefExample) =>
       /\ CorefExampleScore[1] = CorefExampleScore[2]
       /\ call_out[2].subject_entity_id = PartyEntity.entity_id

\* the example resolved
C15_ExampleResolved ==
    /\ pc = "coref_returned"
    /\ call_in.normalized_relations = CorefExample
    /\ call_out[2].subject_entity_id = PartyEntity.entity_id

\* the surface texts of the mentions of cluster k of the last call
ClusterTexts(k) ==
    { Get(canon_in[canon_out.clusters[k][j]], "text", <<>>) :
         j \in 1..Len(canon_out.clusters[k]) }

\* C16: every returned entity is named by the dictionary canonical name of
\* a member of its cluster whose surface text is an alias of the dictionary
\* when the cluster has such a member, and otherwise by a longest surface
\* text of the cluster; the two Party mentions ZhangSan and YuanGaoZhangSan
\* give one entity named YuanGaoZhangSan.
C16_RepresentativeName ==
    pc = "canonicalized" =>
       /\ \A k \in 1..Len(canon_out.clusters) :
             LET texts == ClusterTexts(k)
                 name  == canon_out.entities[k].canonical_name
             IN IF texts \cap DOMAIN AliasMap # {}
                THEN \E t \in texts \cap DOMAIN AliasMap : name = AliasMap[t]
                ELSE /\ name \in texts
                     /\ \A t \in texts : Len(t) <= Len(name)
       /\ \A a, b \in {1, 2} :
             canon_in = << Mention(ZhangSan, "Party", a, "FACT"),
                           Mention(YuanGaoZhangSan, "Party", b, "OTHER") >>
             => /\ Len(canon_out.entities) = 1
                /\ canon_out.entities[1].canonical_name = YuanGaoZhangSan

\* a cluster is named by the canonical name of its aliased member, which
\* is none of its texts, and ZhangSan and YuanGaoZhangSan are merged under
\* the longer name
C16_AliasBeatsLongest ==
    /\ pc = "canonicalized"
    /\ \E k \in 1..Len(canon_out.clusters) :
          /\ canon_out.entities[k].canonical_name = BeiGao
          /\ BeiGaoRen \in ClusterTexts(k)
          /\ BeiGao \notin ClusterTexts(k)
    /\ \E k \in 1..Len(canon_out.clusters) :
          /\ ClusterTexts(k) = {ZhangSan, YuanGaoZhangSan}
          /\ canon_out.entities[k].canonical_name = YuanGaoZhangSan

\* the inputs and the entity map of the last call of process
CorefIn == call_in.normalized_relations
CorefMap == EntityMap(call_in.normalized_entities)

\* C17 (as stated): whenever process replaces an endpoint of a relation,
\* the new value is a key of the entity map.
C17_ReplacedByKnownEntity ==
    pc = "coref_returned" =>
       \A i \in 1..Len(CorefIn) :
          /\ call_out[i].subject_entity_id # CorefIn[i].subject_entity_id
                => call_out[i].subject_entity_id \in DOMAIN CorefMap
          /\ call_out[i].object_entity_id # CorefIn[i].object_entity_id
                => call_out[i].object_entity_id \in DOMAIN CorefMap

\* the nodes one edge away from x in the graph of the relations
Adjacent(relations, x) ==
    { y \in UNION { {relations[i].subject_entity_id, relations[i].object_entity_id} :
                       i \in 1..Len(relations) } :
         \E i \in 1..Len(relations) :
            /\ relations[i].subject_entity_id # <<>>
            /\ relations[i].object_entity_id # <<>>
            /\ {relations[i].subject_entity_id, relations[i].object_entity_id} = {x, y} }

\* the nodes at most k edges away from a node of S
RECURSIVE ReachWithin(_, _, _)
ReachWithin(relations, S, k) ==
    IF k = 0 THEN S
    ELSE ReachWithin(relations, S \cup UNION { Adjacent(relations, x) : x \in S }, k - 1)

\* C18: a relation whose endpoints are both known or both unknown comes
\* back with both endpoints unchanged and not marked resolved; when exactly
\* one endpoint is known it stays, and the other endpoint is either
\* unchanged or a node found from the known endpoint within max_hops edges.
C18_SearchFromSingleKnownEndpoint ==
    pc = "coref_returned" =>
       \A i \in 1..Len(CorefIn) :
          LET s == CorefIn[i].subject_entity_id
              o == CorefIn[i].object_entity_id
              rs == call_out[i].subject_entity_id
              ro == call_out[i].object_entity_id
              sKnown == s \in DOMAIN CorefMap
              oKnown == o \in DOMAIN CorefMap
          IN /\ sKnown = oKnown =>
                   /\ rs = s /\ ro = o
                   /\ ~call_out[i].was_resolved
                   /\ DOMAIN call_out[i] = DOMAIN CorefIn[i] \cup {"was_resolved"}
             /\ (sKnown /\ ~oKnown) =>
                   /\ rs = s
                   /\ ro # o => ro \in ReachWithin(CorefIn, {s}, max_hops) \ {s}
                   /\ call_out[i].was_resolved = (ro # o)
             /\ (oKnown /\ ~sKnown) =>
                   /\ ro = o
                   /\ rs # s => rs \in ReachWithin(CorefIn, {o}, max_hops) \ {o}
                   /\ call_out[i].was_resolved = (rs # s)

\* a relation with both endpoints known, one with one known endpoint whose
\* other endpoint is replaced, and one with no known endpoint
C18_AllThreeKinds ==
    /\ pc = "coref_returned"
    /\ CorefIn = << NormRel(CaseEntity.entity_id, Involves, PartyEntity.entity_id),
                    NormRel(GaiBeiGao, Involves, CaseEntity.entity_id),
                    NormRel(GaiBeiGao, <<"party_against_party">>, GaiYuanGao) >>
    /\ call_out[2].subject_entity_id = PartyEntity.entity_id
    /\ call_out[3].subject_entity_id = GaiBeiGao
    /\ ~call_out[1].was_resolved

\* C19: every candidate _graph_bfs returns is at most max_hops edges away
\* from the start entity and is not the start entity, and no id is returned
\* twice (the search returns on every graph, cyclic ones included).
C19_BoundedSearch ==
    pc = "graph_bfs_returned" =>
       /\ \A k \in 1..Len(call_out) :
             /\ call_out[k][1] \in ReachWithin(call_in.relations, {call_in.start_entity},
                                               call_in.max_hops)
             /\ call_out[k][1] # call_in.start_entity
       /\ \A j, k \in 1..Len(call_out) : call_out[j][1] = call_out[k][1] => j = k

\* a search with limit 1 on a graph with a cycle through the start entity
\* and a node two edges away: the node next to the start is the only
\* candidate
C19_CycleCutAtLimit ==
    /\ pc = "graph_bfs_returned"
    /\ call_in.max_hops = 1
    /\ call_in.start_entity = <<"entity", "1">>
    /\ call_in.relations = << NormRel(<<"entity", "1">>, Involves, <<"entity", "2">>),
                              NormRel(<<"entity", "2">>, Involves, <<"entity", "3">>),
                              NormRel(<<"entity", "3">>, Involves, <<"entity", "2">>) >>
    /\ Len(call_out) = 1
    /\ call_out[1][1] = <<"entity", "2">>

\* C20: for a relation with one known endpoint, the value of the other
\* endpoint after process is a candidate of the search with the highest
\* score among those reaching similarity_threshold, or with the highest
\* score of all when none reaches it; an endpoint without candidates is
\* unchanged.
C20_WinnerIsBestCandidate ==
    pc = "coref_returned" =>
       \A i \in 1..Len(CorefIn) :
          LET s == CorefIn[i].subject_entity_id
              o == CorefIn[i].object_entity_id
              sKnown == s \in DOMAIN CorefMap
              oKnown == o \in DOMAIN CorefMap
              anchor == IF sKnown THEN s ELSE o
              pronoun == IF sKnown THEN o ELSE s
              winner == IF sKnown THEN call_out[i].object_entity_id
                        ELSE call_out[i].subject_entity_id
              cands == IF sKnown = oKnown THEN <<>>
                       ELSE GraphBfs(anchor, ExtractPronounClues(pronoun),
                                     BuildEntityGraph(CorefIn), CorefMap, max_hops)
              Passes(k) == FracGeq(cands[k][2], similarity_threshold)
              Among == IF \E k \in 1..Len(cands) : Passes(k)
                       THEN {k \in 1..Len(cands) : Passes(k)}
                       ELSE 1..Len(cands)
          IN IF cands = <<>>
             THEN /\ call_out[i].subject_entity_id = s
                  /\ call_out[i].object_entity_id = o
             ELSE \E k \in Among :
                     /\ winner = cands[k][1]
                     /\ \A j \in Among : FracGeq(cands[k][2], cands[j][2])

\* one endpoint won by a candidate above the threshold, one by the best of
\* candidates all below it
C20_ThresholdAndFallback ==
    /\ pc = "coref_returned"
    /\ CorefIn = << NormRel(CaseEntity.entity_id, Involves, PartyEntity.entity_id),
                    NormRel(Ta, Involves, PartyEntity.entity_id),
                    NormRel(GaiBeiGao, Involves, CaseEntity.entity_id) >>
    /\ call_out[2].subject_entity_id = CaseEntity.entity_id
    /\ call_out[3].subject_entity_id = PartyEntity.entity_id

\* C21: process returns one relation for each input relation, in the input
\* order; a relation is marked resolved exactly when one of its endpoints
\* differs from the input; the input value of a replaced endpoint is kept
\* in original_subject or original_object; every other field of the input
\* relation is unchanged, and an unresolved relation keeps both endpoints.
C21_ResolveKeepsTheRest ==
    pc = "coref_returned" =>
       /\ Len(call_out) = Len(CorefIn)
       /\ \A i \in 1..Len(CorefIn) :
             LET r == CorefIn[i]
                 q == call_out[i]
                 subjectReplaced == q.subject_entity_id # r.subject_entity_id
                 objectReplaced == q.object_entity_id # r.object_entity_id
             IN /\ q.was_resolved = (subjectReplaced \/ objectReplaced)
                /\ subjectReplaced =>
                      /\ "original_subject" \in DOMAIN q
                      /\ q.original_subject = r.subject_entity_id
                /\ objectReplaced =>
                      /\ "original_object" \in DOMAIN q
                      /\ q.original_object = r.object_entity_id
                /\ \A f \in DOMAIN r \ {"subject_entity_id", "object_entity_id"} :
                      f \in DOMAIN q /\ q[f] = r[f]
                /\ {"predicate", "confidence", "evidence", "source_block_id",
                    "need_coref", "validation_passed"} \subseteq DOMAIN r

\* a resolved relation that keeps its original object next to an
\* unresolved relation
C21_ResolvedNextToUnresolved ==
    /\ pc = "coref_returned"
    /\ Len(call_out) = 3
    /\ \E i \in 1..3 :
          /\ call_out[i].was_resolved
          /\ "original_object" \in DOMAIN call_out[i]
          /\ call_out[i].original_object = GaiBeiGao
          /\ call_out[i].need_coref
    /\ \E i \in 1..3 : ~call_out[i].was_resolved /\ call_out[i].need_coref

\* the ids of the entities given to the last call of normalize
GivenEntityIds ==
    { call_in.normalized_entities[i].entity_id : i \in 1..Len(call_in.normalized_entities) }

\* C22 (as stated): need_coref of a normalized relation is true exactly
\* when its subject or its object is not the id of an entity of the list
\* given to normalize, an empty endpoint included.
C22_NeedCorefIffUnknownEndpoint ==
    pc = "relation_norm_returned" =>
       \A k \in 1..Len(call_out) :
          call_out[k].need_coref =
             (\/ call_out[k].subject_entity_id \notin GivenEntityIds
              \/ call_out[k].object_entity_id \notin GivenEntityIds)

\* a raw predicate that is no schema key, no alias and in no substring
\* relation with an alias
Unmappable(predicate) ==
    /\ predicate \notin DOMAIN RelationSchema
    /\ \A i \in 1..Len(PredicateAliases) :
          /\ ~IsSubstring(PredicateAliases[i][1], predicate)
          /\ ~IsSubstring(predicate, PredicateAliases[i][1])

\* C23: validation_passed of a normalized relation is true exactly when its
\* predicate is a key of the schema and a given entity with the subject's id
\* has the expected subject type and one with the object's id the expected
\* object type; a raw predicate that cannot be mapped comes out unchanged
\* and fails validation.
C23_ValidationIffSchemaTypes ==
    pc = "relation_norm_returned" =>
       LET ents == call_in.normalized_entities
           HasType(id, t) == \E i \in 1..Len(ents) :
                                ents[i].entity_id = id /\ ents[i].entity_type = t
       IN /\ \A k \in 1..Len(call_out) :
                call_out[k].validation_passed =
                   (/\ call_out[k].predicate \in DOMAIN RelationSchema
                    /\ HasType(call_out[k].subject_entity_id,
                               RelationSchema[call_out[k].predicate][1])
                    /\ HasType(call_out[k].object_entity_id,
                               RelationSchema[call_out[k].predicate][2]))
          /\ \A i \in 1..Len(call_in.relations) :
                Unmappable(call_in.relations[i].predicate) =>
                   \E k \in 1..Len(call_out) :
                      /\ call_out[k].predicate = call_in.relations[i].predicate
                      /\ call_out[k].subject_entity_id = call_in.relations[i].subject
                      /\ call_out[k].object_entity_id = call_in.relations[i].object
                      /\ ~call_out[k].validation_passed
          /\ \A k \in 1..Len(call_out) :
                call_out[k].predicate \notin DOMAIN RelationSchema
                   => ~call_out[k].validation_passed

\* a relation that passes, one that fails on the type of its object, and
\* one whose predicate could not be mapped
C23_PassTypeFailUnknownFail ==
    /\ pc = "relation_norm_returned"
    /\ Len(call_out) = 3
    /\ call_out[1].validation_passed
    /\ call_out[2].predicate = <<"case_in_court">> /\ ~call_out[2].validation_passed
    /\ call_out[2].subject_entity_id = CaseEntity.entity_id
    /\ call_out[3].predicate = <<"unknown">> /\ ~call_out[3].validation_passed
    /\ Len(call_in.normalized_entities) = 2

\* the reference clustering: the mentions idxs are scanned in order, each
\* joins the earliest cluster whose seed is similar to it, or else opens a
\* cluster of its own
RECURSIVE ReferenceScan(_, _, _, _)
ReferenceScan(kw, ents, idxs, clusters) ==
    IF idxs = <<>> THEN clusters
    ELSE LET m == Head(idxs)
             hits == {c \in 1..Len(clusters) :
                        AtLeastThreshold(ComputeEntitySimilarity(kw, ents[clusters[c][1]],
                                                                 ents[m]))}
             first == CHOOSE c \in hits : \A d \in hits : c <= d
         IN IF hits = {}
            THEN ReferenceScan(kw, ents, Tail(idxs), Append(clusters, <<m>>))
            ELSE ReferenceScan(kw, ents, Tail(idxs),
                               [clusters EXCEPT ![first] = Append(@, m)])

\* ------------------------------------------------------------------------
\* EntityNormalizer._cluster_same_type on its own, on a list of mentions of
\* one type after _pre_match_dictionary
\* ------------------------------------------------------------------------
SameTypeLists ==
    UNION { [1..n -> {Mention(t, "Party", 1, "FACT") : t \in TextUniverse}] :
               n \in 0..MaxMentions }

InitCluster ==
    /\ pc = "cluster_same_type_call"
    /\ state = create_initial_state(<<>>)
    /\ result = None
    /\ max_backtrack_attempts = 0
    /\ block_counter = 0
    /\ entity_counter = 0
    /\ segKw \in SegModels
    /\ hashPick = CHOOSE f \in HashPicks : TRUE
    /\ qa_runs = 0
    /\ reentries = 0
    /\ qa_pre_count = 0
    /\ qa_response = "none"
    /\ reentered = FALSE
    /\ llm_raised = {}
    /\ at_failure = None
    /\ canon_in = <<>>
    /\ canon_out = None
    /\ \E ms \in SameTypeLists : call_in = PreMatchDictionary(ms)
    /\ call_out = None

\* EntityNormalizer._cluster_same_type(call_in): clusters of indexes
ClusterSameTypeCall ==
    /\ pc = "cluster_same_type_call"
    /\ pc' = "cluster_same_type_returned"
    /\ call_out' = ClusterSameType(segKw, call_in, [i \in 1..Len(call_in) |-> i])
    /\ UNCHANGED <<idleVars, call_in>>

NextCluster == ClusterSameTypeCall

SpecCluster == InitCluster /\ [][NextCluster]_vars

\* C24: the clusters _cluster_same_type builds are those of the reference
\* scan, in the same order; mentions that are pairwise below the threshold
\* each get a cluster of their own.
C24_ClustersAsReferenceScan ==
    pc = "cluster_same_type_returned" =>
       LET n == Len(call_in)
           Similar(i, j) ==
              AtLeastThreshold(ComputeEntitySimilarity(segKw, call_in[i], call_in[j]))
       IN /\ call_out = ReferenceScan(segKw, call_in, [i \in 1..n |-> i], <<>>)
          /\ (\A i, j \in 1..n : i < j => ~Similar(i, j))
                => call_out = [i \in 1..n |-> <<i>>]

\* the second mention joined the first, and the third opened a cluster
\* although it is similar to the second: it is not similar to the seed
C24_SimilarToMemberNotToSeed ==
    /\ pc = "cluster_same_type_returned"
    /\ call_out = << <<1, 2>>, <<3>> >>
    /\ AtLeastThreshold(ComputeEntitySimilarity(segKw, call_in[2], call_in[3]))

C26_NamesAreAliasesPlusCanonical ==
    pc = "canonicalized" =>
       \A k \in 1..Len(canon_out.entities) :
          LET e == canon_out.entities[k]
          IN /\ e.canonical_name \notin e.aliases
             /\ e.canonical_name \in Range(e.original_names)
             /\ Range(e.original_names) = e.aliases \cup {e.canonical_name}

\* C27 (as stated): when the controller has gone back to the document
\* parser, the normalization, the relation normalization or the coreference
\* node, the output that node writes is the one it wrote in the previous
\* pass, which the state still holds: same blocks with the same block ids,
\* same entities with the same entity ids, same relations.
C27_RerunGivesSameOutput ==
    [][ reentered =>
          /\ pc = "document_parser" => state'.document_blocks = state.document_blocks
          /\ pc = "normalization" => state'.normalized_entities = state.normalized_entities
          /\ pc \in {"relation_norm", "coref"}
                => state'.normalized_relations = state.normalized_relations ]_vars

\* C28: a run starts at the document parser; from every stage but the
\* last the next stage executed is the following one in the order
\* document_parser, ner, normalization, relation, relation_norm, coref, qa,
\* unless the stage raises and the run fails; only after qa does the run
\* either end or go to an earlier stage, from which the stages again follow
\* one another up to qa.
C28_StagesInForwardOrder ==
    /\ pc = Stages[1]
    /\ [][ /\ \A i \in 1..(Len(Stages) - 1) :
                pc = Stages[i] => pc' \in {Stages[i + 1], "failed"}
           /\ pc = "qa" => pc' \in {"route", "failed"}
           /\ pc = "route" =>
                 \/ pc' = "success"
                 \/ /\ \E i \in 1..(Len(Stages) - 1) : pc' = Stages[i]
                    /\ reentries' = reentries + 1
           /\ pc \in Terminal => pc' = pc ]_vars

\* a run that went back to the relation node after its first quality check
\* and has reached its second quality check
C28_SecondCheckAfterReentry ==
    /\ pc = "route"
    /\ qa_runs = 2
    /\ reentries = 1
    /\ state.quality_report.backtrack_stage = "relation"

\* C29 (as stated): the backtrack_count of the result of a successful run
\* is the number of times the run went back to an earlier stage.
C29_CountIsNumberOfReentries ==
    pc = "success" => result.backtrack_count = reentries

\* ------------------------------------------------------------------------
\* Relation normalization followed by coreference resolution, as the
\* relation_norm node and the coref node run one after the other on the
\* same state
\* ------------------------------------------------------------------------
\* CorefAgent.process on the relations RelationNormalizationAgent.normalize
\* has just returned
CorefAfterNormalize ==
    /\ pc = "relation_norm_returned"
    /\ pc' = "coref_after_norm_returned"
    /\ call_out' = IF call_out = <<>> \/ call_in.normalized_entities = <<>>
                   THEN call_out
                   ELSE ResolveRelations(call_out, call_in.normalized_entities)
    /\ UNCHANGED <<idleVars, call_in>>

NextRelCoref == NormalizeCall \/ CorefAfterNormalize

SpecRelCoref == InitRelNorm /\ [][NextRelCoref]_vars

====
